---- MODULE Spec2Model ----
(***************************************************************************)
(* Model of solidity's IRGenerationContext (libsolidity/codegen/ir):       *)
(* the function generation queue, the naming of generated functions and    *)
(* the internal dispatch bookkeeping (dispatch map, candidates map and     *)
(* the table of collected references).                                     *)
(***************************************************************************)
EXTENDS Integers, Sequences, FiniteSets

(***************************************************************************)
(* Bounds of the model.                                                    *)
(***************************************************************************)
\* FunctionDefinition objects of the compiled source unit: ids 1..NumFunctions
NumFunctions == 2
\* largest value of m_varCounter the model follows
MaxVarCounter == 1
\* registerImmutableVariable calls the model follows
MaxImmutables == 2
\* statements a lowered body may hold (context calls made while lowering it)
MaxBodyOps == 2
\* functions one internalDispatch call is handed
MaxDispatched == 2
\* statements of the block the simplifier walks, nested ones included
MaxStatements == 3
\* depth to which the if statements of the block are nested
MaxNesting == 2
\* bits of a machine word (256 on the EVM)
WordBits == 2

(***************************************************************************)
(* The AST the context is handed (libsolidity/ast, an input of this code). *)
(***************************************************************************)
FunctionDefinitions == 1 .. NumFunctions
\* Every FunctionDefinition node of the AST: next to the functions above,
\* node 0, whose id is 0, one more function and, last, a constructor.
FunctionObjects == 0 .. NumFunctions + 2
\* FunctionDefinition::isConstructor()
isConstructor(f) == f = NumFunctions + 2
\* Expression nodes that mention a function by name (keys of the reference table;
\* a node is known by its address only, so it is named by its address rank)
Expressions == {1, 2}
\* VariableDeclaration nodes: declaration 1 is an immutable state variable,
\* declaration 2 is not immutable; both have a value type.
VariableDeclarations == {1, 2}
\* The declarations of a contract with two immutables: the odd ones.
ContractVariables == {1, 2, 3}
immutable(v) == v % 2 = 1
isValueType(v) == TRUE
\* Type::memoryHeadSize() of a value type: one word
memoryHeadSize(v) == 32
\* CompilerUtils::generalPurposeMemoryStart
generalPurposeMemoryStart == 128
\* storage slots and byte offsets a state variable is given
StorageOffsets == {0, 1}
ByteOffsets == {0}

\* FunctionDefinition::id(): the node itself is named by its id here.
id(f) == f

\* FunctionDefinition::name(): the functions with odd ids are overloads of "f".
name(f) == IF f % 2 = 1 THEN "f" ELSE "g"

\* struct Arity {in, out}
Arity(i, o) == [in |-> i, out |-> o]

\* functionArity(FunctionDefinition): the overloads of "f" take one stack slot
\* and return one, every other function takes two and returns nothing.
functionArity(f) == IF f % 2 = 1 THEN Arity(1, 1) ELSE Arity(2, 0)

\* functionArity(FunctionType): the arities of the function types of the unit
\* (a pointer of type (2, 0) exists whether or not a function has that type).
Arities == {Arity(1, 1), Arity(2, 0)}

\* std::less<Arity>: by in, then by out.
ArityLess(l, r) == l.in < r.in \/ (l.in = r.in /\ l.out < r.out)

(***************************************************************************)
(* Names.                                                                  *)
(***************************************************************************)
Digit(d) ==
    CASE d = 0 -> "0" [] d = 1 -> "1" [] d = 2 -> "2" [] d = 3 -> "3"
      [] d = 4 -> "4" [] d = 5 -> "5" [] d = 6 -> "6" [] d = 7 -> "7"
      [] d = 8 -> "8" [] d = 9 -> "9"

RECURSIVE to_string(_)
to_string(n) == IF n < 10 THEN Digit(n) ELSE to_string(n \div 10) \o Digit(n % 10)

\* functionName(FunctionDefinition), tabulated over the unit's functions
FunctionNames == [f \in FunctionObjects |-> "fun_" \o name(f) \o "_" \o to_string(id(f))]

functionName(f) == FunctionNames[f]

DispatchFunctionNames ==
    [a \in Arities |->
        "dispatch_internal" \o "_in_" \o to_string(a.in) \o "_out_" \o to_string(a.out)]

internalDispatchFunctionName(a) == DispatchFunctionNames[a]

(***************************************************************************)
(* State of one IRGenerationContext.                                       *)
(***************************************************************************)
VARIABLES
    m_functionGenerationQueue,   \* std::set<FunctionDefinition const*>
    m_functions,                 \* names the function collector has recorded
    m_internalDispatch,          \* InternalDispatchMap
    m_internalDispatchCandidates,\* InternalDispatchMap
    m_dispatchableInternalFunctionReferences, \* Expression -> FunctionDefinition
    m_localVariables,            \* VariableDeclaration -> IRVariable
    m_immutableVariables,        \* VariableDeclaration -> memory offset
    m_reservedMemory,            \* std::optional<size_t>
    m_stateVariables,            \* VariableDeclaration -> (slot, byte offset)
    m_varCounter,                \* size_t
    address,                     \* address rank of each FunctionDefinition object
    last,                        \* the last call made on the context: [op, ok]
    returned,                    \* that call and what it returned: <<op, ok, value>>
    pc,                          \* where the driver of the lowering is
    current,                     \* the function the driver is lowering
    opsLeft,                     \* statements left in the body being lowered
    dequeued,                    \* how often each function was dequeued (0, 1, many)
    m_code,                      \* the dispatch functions the collector holds, by name
    leftover,                    \* the candidates the caller holds from the last consume
    registrations,               \* registerImmutableVariable calls that returned
    collected,                   \* the functions referenced by name in the current code object
    m_solver,                    \* the solver's stack of assertion scopes
    m_variables,                 \* YulString -> solver variable
    m_exprCounter,               \* ReasoningBasedSimplifier::m_varCounter
    visiting,                    \* the If nodes whose visit has not returned, outermost first
    ast                          \* where the walk over the block is, and what it has met

queueVars == <<m_functionGenerationQueue, m_functions>>
dispatchVars == <<m_internalDispatch, m_internalDispatchCandidates,
                  m_dispatchableInternalFunctionReferences>>
registryVars == <<m_localVariables, m_immutableVariables, m_reservedMemory,
                  m_stateVariables, m_varCounter>>
driverVars == <<pc, current, opsLeft, dequeued>>
\* what lies outside the context and its generator
\* the state of one ReasoningBasedSimplifier run
simplifierVars == <<m_solver, m_variables, m_exprCounter, visiting, ast>>
restVars == <<m_code, leftover, registrations, collected, simplifierVars>>
vars == <<queueVars, dispatchVars, registryVars, address, last, returned, driverVars, restVars>>

\* std::map helpers
EmptyMap == << >>
MapPut(m, k, v) == [x \in (DOMAIN m) \cup {k} |-> IF x = k THEN v ELSE m[x]]
MapErase(m, k) == [x \in (DOMAIN m) \ {k} |-> m[x]]

\* std::optional<size_t>: without a value, with a value
Nullopt == << >>
Optional(n) == <<n>>
Value(o) == o[1]

\* The orders in which the FunctionDefinition objects may lie in memory.
AddressOrders ==
    {p \in [FunctionDefinitions -> 1 .. NumFunctions] :
        \A x, y \in FunctionDefinitions : x # y => p[x] # p[y]}

\* One of them: the objects lie in memory in the reverse order of their ids.
ReverseLayout == [f \in FunctionDefinitions |-> NumFunctions + 1 - f]

Void == "void"
Call(op, ok) == [op |-> op, ok |-> ok]
\* The value the last call returned.
ret == returned[3]
\* The call that is being made returns value.
Returns(value) == returned' = <<last'.op, last'.ok, value>>

\* The context after its constructor (the member initialisers of the class).
InitContext ==
    /\ m_functionGenerationQueue = {}
    /\ m_functions = {}
    /\ m_internalDispatch = EmptyMap
    /\ m_internalDispatchCandidates = EmptyMap
    /\ m_dispatchableInternalFunctionReferences = EmptyMap
    /\ m_localVariables = EmptyMap
    /\ m_immutableVariables = EmptyMap
    /\ m_reservedMemory = Optional(0)
    /\ m_stateVariables = EmptyMap
    /\ m_varCounter = 0
    /\ last = Call("IRGenerationContext", TRUE)
    /\ returned = <<"IRGenerationContext", TRUE, Void>>

NoDriver ==
    /\ pc = "caller"
    /\ current = 0
    /\ opsLeft = 0
    /\ dequeued = [f \in FunctionDefinitions |-> 0]

\* No simplifier runs.
NoSimplifier ==
    /\ m_solver = << {} >>
    /\ m_variables = EmptyMap
    /\ m_exprCounter = 0
    /\ visiting = << >>
    /\ ast = [at |-> "idle", left |-> 0, declaredAt |-> -1, value |-> << >>]

\* Nothing but the context is in use.
NoRest ==
    /\ m_code = EmptyMap
    /\ leftover = EmptyMap
    /\ registrations = 0
    /\ collected = {}
    /\ NoSimplifier

\* A fresh context used directly by its caller. Only
\* dequeueFunctionForCodeGeneration reads the addresses; SpecQueue and
\* SpecDriver below run it under every order of the objects.
Init ==
    /\ InitContext
    /\ address = ReverseLayout
    /\ NoDriver
    /\ NoRest

(***************************************************************************)
(* enqueueFunctionForCodeGeneration / dequeueFunctionForCodeGeneration     *)
(***************************************************************************)
\* The queue after an insertion that does not look the name up.
EnqueuedUnchecked(queue, functions, f) == queue \cup {f}

\* The queue after enqueueFunctionForCodeGeneration(f).
Enqueued(queue, functions, f) ==
    IF functionName(f) \notin functions THEN queue \cup {f} ELSE queue

enqueueFunctionForCodeGeneration(f) ==
    /\ m_functionGenerationQueue' = Enqueued(m_functionGenerationQueue, m_functions, f)
    /\ last' = Call("enqueueFunctionForCodeGeneration", TRUE)
    /\ Returns(functionName(f))
    /\ UNCHANGED <<m_functions, dispatchVars, registryVars, address>>

\* *m_functionGenerationQueue.begin(): the set is ordered by std::less on the
\* pointers, i.e. by address.
QueueBegin(queue) == CHOOSE f \in queue : \A g \in queue : address[f] <= address[g]

dequeueFunctionForCodeGeneration ==
    IF m_functionGenerationQueue = {}
    THEN /\ last' = Call("dequeueFunctionForCodeGeneration", FALSE)
         /\ Returns(Void)
         /\ UNCHANGED <<queueVars, dispatchVars, registryVars, address>>
    ELSE /\ last' = Call("dequeueFunctionForCodeGeneration", TRUE)
         /\ Returns(QueueBegin(m_functionGenerationQueue))
         /\ m_functionGenerationQueue' =
                m_functionGenerationQueue \ {QueueBegin(m_functionGenerationQueue)}
         /\ UNCHANGED <<m_functions, dispatchVars, registryVars, address>>

\* MultiUseYulFunctionCollector::createFunction(functionName(f), ...), reached
\* through functionCollector(): the name is recorded as requested.
createFunction(f) ==
    /\ m_functions' = m_functions \cup {functionName(f)}
    /\ last' = Call("createFunction", TRUE)
    /\ Returns(Void)
    /\ UNCHANGED <<m_functionGenerationQueue, dispatchVars, registryVars, address>>

(***************************************************************************)
(* Internal dispatch: collecting references, registering arities           *)
(***************************************************************************)
\* The check when it always passes.
AlwaysClean == TRUE

internalDispatchClean ==
    /\ m_internalDispatch = EmptyMap
    /\ m_internalDispatchCandidates = EmptyMap
    /\ m_dispatchableInternalFunctionReferences = EmptyMap

\* The maps setInternalDispatchCandidates is handed: what an earlier
\* consumeInternalDispatchMap returned as candidates (no empty bucket, every
\* function under its own arity).
InternalDispatchMaps ==
    UNION {[D -> SUBSET FunctionDefinitions] : D \in SUBSET Arities}

CandidateMaps ==
    {m \in InternalDispatchMaps :
        \A a \in DOMAIN m : m[a] # {} /\ \A f \in m[a] : functionArity(f) = a}

setInternalDispatchCandidates(candidates) ==
    IF ~internalDispatchClean
    THEN /\ last' = Call("setInternalDispatchCandidates", FALSE)
         /\ Returns(Void)
         /\ UNCHANGED <<queueVars, dispatchVars, registryVars, address>>
    ELSE /\ m_internalDispatchCandidates' = candidates
         /\ last' = Call("setInternalDispatchCandidates", TRUE)
         /\ Returns(Void)
         /\ UNCHANGED <<queueVars, registryVars, m_internalDispatch,
                        m_dispatchableInternalFunctionReferences, address>>

collectDispatchableReference(e, f) ==
    IF e \in DOMAIN m_dispatchableInternalFunctionReferences
    THEN /\ last' = Call("collectDispatchableReference", FALSE)
         /\ Returns(Void)
         /\ UNCHANGED <<queueVars, dispatchVars, registryVars, address>>
    ELSE /\ m_dispatchableInternalFunctionReferences' =
                MapPut(m_dispatchableInternalFunctionReferences, e, f)
         /\ last' = Call("collectDispatchableReference", TRUE)
         /\ Returns(internalDispatchFunctionName(functionArity(f)))
         /\ UNCHANGED <<queueVars, registryVars, m_internalDispatch,
                        m_internalDispatchCandidates, address>>

\* m_dispatchableInternalFunctionReferences.clear()
ErasedAll(references, e) == EmptyMap

\* The table when nothing is erased.
ErasedNothing(references, e) == references

\* m_dispatchableInternalFunctionReferences.erase(&_expression)
Erased(references, e) == MapErase(references, e)

forgetDispatchableReference(e) ==
    IF e \notin DOMAIN m_dispatchableInternalFunctionReferences
    THEN /\ last' = Call("forgetDispatchableReference", FALSE)
         /\ Returns(Void)
         /\ UNCHANGED <<queueVars, dispatchVars, registryVars, address>>
    ELSE /\ m_dispatchableInternalFunctionReferences' =
                Erased(m_dispatchableInternalFunctionReferences, e)
         /\ last' = Call("forgetDispatchableReference", TRUE)
         /\ Returns(Void)
         /\ UNCHANGED <<queueVars, registryVars, m_internalDispatch,
                        m_internalDispatchCandidates, address>>

\* m_internalDispatch[_arity] = {}
TryEmplaceOverwrite(dispatch, a) == MapPut(dispatch, a, {})

\* m_internalDispatch.try_emplace(_arity)
TryEmplace(dispatch, a) == IF a \in DOMAIN dispatch THEN dispatch ELSE MapPut(dispatch, a, {})

registerInternalDispatch(a) ==
    /\ m_internalDispatch' = TryEmplace(m_internalDispatch, a)
    /\ last' = Call("registerInternalDispatch", TRUE)
    /\ Returns(internalDispatchFunctionName(a))
    /\ UNCHANGED <<queueVars, registryVars, m_internalDispatchCandidates,
                   m_dispatchableInternalFunctionReferences, address>>

(***************************************************************************)
(* consumeInternalDispatchMap                                              *)
(***************************************************************************)
\* The same call with the candidates left in the context.
consumeInternalDispatchMapKeepsCandidates ==
    IF m_dispatchableInternalFunctionReferences # EmptyMap
    THEN /\ last' = Call("consumeInternalDispatchMap", FALSE)
         /\ Returns(Void)
         /\ UNCHANGED <<queueVars, dispatchVars, registryVars, address>>
    ELSE /\ last' = Call("consumeInternalDispatchMap", TRUE)
         /\ Returns(<<m_internalDispatch, m_internalDispatchCandidates>>)
         /\ m_internalDispatch' = EmptyMap
         /\ UNCHANGED <<queueVars, registryVars, m_internalDispatchCandidates,
                        m_dispatchableInternalFunctionReferences, address>>

consumeInternalDispatchMap ==
    IF m_dispatchableInternalFunctionReferences # EmptyMap
    THEN /\ last' = Call("consumeInternalDispatchMap", FALSE)
         /\ Returns(Void)
         /\ UNCHANGED <<queueVars, dispatchVars, registryVars, address>>
    ELSE /\ last' = Call("consumeInternalDispatchMap", TRUE)
         /\ Returns(<<m_internalDispatch, m_internalDispatchCandidates>>)
         /\ m_internalDispatch' = EmptyMap
         /\ m_internalDispatchCandidates' = EmptyMap
         /\ UNCHANGED <<queueVars, registryVars,
                        m_dispatchableInternalFunctionReferences, address>>

(***************************************************************************)
(* moveCollectedReferencesToDispatch                                       *)
(***************************************************************************)
\* First key of a std::map<Arity, ...> restricted to the keys still to visit.
FirstArity(keys) == CHOOSE a \in keys : \A b \in keys : a = b \/ ArityLess(a, b)

\* The queue when none of the functions of `set` is enqueued.
EnqueueNone(queue, functions, set) == queue

\* for (function: set) enqueueFunctionForCodeGeneration(*function)
RECURSIVE EnqueueAll(_, _, _)
EnqueueAll(queue, functions, set) ==
    IF set = {} THEN queue
    ELSE LET f == CHOOSE g \in set : TRUE
         IN  EnqueueAll(Enqueued(queue, functions, f), functions, set \ {f})

\* The first loop without its solAssert and without the erase() of the
\* candidates it moved.
RECURSIVE MoveCandidatesNoErase(_, _, _)
MoveCandidatesNoErase(st, functions, keys) ==
    IF keys = {} THEN st
    ELSE
      LET a == FirstArity(keys)
      IN  IF a \in DOMAIN st.candidates
          THEN MoveCandidatesNoErase(
                 [dispatch |-> MapPut(st.dispatch, a, st.candidates[a]),
                  candidates |-> st.candidates,
                  queue |-> EnqueueAll(st.queue, functions, st.candidates[a]),
                  ok |-> TRUE],
                 functions, keys \ {a})
          ELSE MoveCandidatesNoErase(st, functions, keys \ {a})

\* The call without its first loop: no candidate is moved.
MoveCandidatesSkipped(st, functions, keys) == st

\* The first loop: the walk over m_internalDispatch, `keys` still to visit.
\* st is [dispatch, candidates, queue, ok]; ok = FALSE once a solAssert threw.
RECURSIVE MoveCandidates(_, _, _)
MoveCandidates(st, functions, keys) ==
    IF keys = {} THEN st
    ELSE
      LET a == FirstArity(keys)
      IN  IF st.dispatch[a] # {} /\ a \in DOMAIN st.candidates
          THEN [st EXCEPT !.ok = FALSE]
          ELSE IF a \in DOMAIN st.candidates
          THEN MoveCandidates(
                 [dispatch |-> MapPut(st.dispatch, a, st.candidates[a]),
                  candidates |-> MapErase(st.candidates, a),
                  queue |-> EnqueueAll(st.queue, functions, st.candidates[a]),
                  ok |-> TRUE],
                 functions, keys \ {a})
          ELSE MoveCandidates(st, functions, keys \ {a})

\* The reference filed under the first of the arities, whatever its own is.
FileUnderFirstArity(st, functions, function) ==
    LET arity == FirstArity(Arities)
    IN  IF arity \in DOMAIN st.candidates
        THEN [st EXCEPT !.candidates = MapPut(@, arity, @[arity] \cup {function})]
        ELSE [st EXCEPT !.candidates = MapPut(@, arity, {function})]

\* One collected reference to `function`, lines 205-220.
FileAsCandidate(st, functions, function) ==
    LET arity == functionArity(function)
    IN  IF arity \in DOMAIN st.candidates
        THEN [st EXCEPT !.candidates = MapPut(@, arity, @[arity] \cup {function})]
        ELSE [st EXCEPT !.candidates = MapPut(@, arity, {function})]

\* The same reference filed among the candidates whatever the dispatch holds.
ResolveReferenceAsCandidate(st, functions, function) ==
    FileAsCandidate(st, functions, function)

\* The same reference when a dispatch member is not handed to the queue.
ResolveReferenceUnqueued(st, functions, function) ==
    LET arity == functionArity(function)
    IN  IF arity \in DOMAIN st.dispatch /\ arity \in DOMAIN st.candidates
        THEN [st EXCEPT !.ok = FALSE]
        ELSE IF arity \in DOMAIN st.dispatch
        THEN [st EXCEPT !.dispatch = MapPut(@, arity, @[arity] \cup {function})]
        ELSE FileAsCandidate(st, functions, function)

ResolveReference(st, functions, function) ==
    LET arity == functionArity(function)
    IN  IF arity \in DOMAIN st.dispatch /\ arity \in DOMAIN st.candidates
        THEN [st EXCEPT !.ok = FALSE]
        ELSE IF arity \in DOMAIN st.dispatch
        THEN [st EXCEPT !.dispatch = MapPut(@, arity, @[arity] \cup {function}),
                        !.queue = Enqueued(@, functions, function)]
        ELSE FileAsCandidate(st, functions, function)

\* The second loop when it stops behind the first reference.
ProcessReferencesOnce(st, functions, references, keys) ==
    IF keys = {} \/ ~st.ok THEN st
    ELSE LET e == CHOOSE x \in keys : \A y \in keys : x <= y
         IN  ResolveReference(st, functions, references[e])

\* The second loop: the walk over the collected references in key order.
RECURSIVE ProcessReferences(_, _, _, _)
ProcessReferences(st, functions, references, keys) ==
    IF keys = {} \/ ~st.ok THEN st
    ELSE
      LET e == CHOOSE x \in keys : \A y \in keys : x <= y
      IN  ProcessReferences(ResolveReference(st, functions, references[e]),
                            functions, references, keys \ {e})

\* The whole call without the final clear() of the references.
MovedToDispatchKeepsReferences(dispatch, candidates, queue, functions, references) ==
    LET st0 == [dispatch |-> dispatch, candidates |-> candidates, queue |-> queue, ok |-> TRUE]
        st1 == MoveCandidates(st0, functions, DOMAIN dispatch)
        st2 == ProcessReferences(st1, functions, references, DOMAIN references)
    IN  [dispatch |-> st2.dispatch, candidates |-> st2.candidates, queue |-> st2.queue,
         references |-> references,
         ok |-> st2.ok]

\* The whole call: [dispatch, candidates, queue, references, ok].
MovedToDispatch(dispatch, candidates, queue, functions, references) ==
    LET st0 == [dispatch |-> dispatch, candidates |-> candidates, queue |-> queue, ok |-> TRUE]
        st1 == MoveCandidates(st0, functions, DOMAIN dispatch)
        st2 == ProcessReferences(st1, functions, references, DOMAIN references)
    IN  [dispatch |-> st2.dispatch, candidates |-> st2.candidates, queue |-> st2.queue,
         references |-> IF st2.ok THEN EmptyMap ELSE references,
         ok |-> st2.ok]

moveCollectedReferencesToDispatch ==
    LET r == MovedToDispatch(m_internalDispatch, m_internalDispatchCandidates,
                             m_functionGenerationQueue, m_functions,
                             m_dispatchableInternalFunctionReferences)
    IN  /\ m_internalDispatch' = r.dispatch
        /\ m_internalDispatchCandidates' = r.candidates
        /\ m_functionGenerationQueue' = r.queue
        /\ m_dispatchableInternalFunctionReferences' = r.references
        /\ last' = Call("moveCollectedReferencesToDispatch", r.ok)
        /\ Returns(Void)
        /\ UNCHANGED <<m_functions, registryVars, address>>

(***************************************************************************)
(* internalDispatch: the dispatch function of one arity                    *)
(***************************************************************************)
\* suffixedVariableNameList(prefix, 0, n): prefix0, ..., prefix<n-1>
suffixedVariableNameList(prefix, n) == [i \in 1 .. n |-> prefix \o to_string(i - 1)]

\* The orders in which a std::set<FunctionDefinition const*> may be walked:
\* by address, which `address` fixes among the functions of the unit.
SetOrders(functions) ==
    {order \in [1 .. Cardinality(functions) -> functions] :
        /\ \A i, j \in DOMAIN order : i # j => order[i] # order[j]
        /\ \A i, j \in DOMAIN order :
              (i < j /\ order[i] \in FunctionDefinitions /\ order[j] \in FunctionDefinitions)
                  => address[order[i]] < address[order[j]]}

\* The solAsserts of the loop without the one on the id.
DispatchableAnyId(a, f) == functionArity(f) = a /\ ~isConstructor(f)

\* The solAsserts of the loop, lines 274-277, for one function.
Dispatchable(a, f) == functionArity(f) = a /\ ~isConstructor(f) /\ id(f) # 0

\* cases.emplace_back({{"funID", ...}, {"name", ...}}) for each function
Cases(order) ==
    [i \in DOMAIN order |->
        [funID |-> to_string(id(order[i])), name |-> functionName(order[i])]]

\* The template of lines 287-307 with its parameters filled in.
DispatchTemplate(funName, a, cases) ==
    [functionName |-> funName,
     comma |-> IF a.in > 0 THEN "," ELSE "",
     in |-> suffixedVariableNameList("in_", a.in),
     arrow |-> IF a.out > 0 THEN "->" ELSE "",
     assignment_op |-> IF a.out > 0 THEN ":=" ELSE "",
     out |-> suffixedVariableNameList("out_", a.out),
     cases |-> cases,
     default |-> "invalid()"]

\* m_functions.createFunction(funName, creator): the creator runs unless the
\* name is recorded.
internalDispatch(a, functions) ==
    IF \E f \in functions : ~Dispatchable(a, f)
    THEN /\ last' = Call("internalDispatch", FALSE)
         /\ Returns(Void)
         /\ UNCHANGED <<queueVars, dispatchVars, registryVars, address, m_code>>
    ELSE \E order \in SetOrders(functions) :
         LET funName == internalDispatchFunctionName(a)
         IN  /\ last' = Call("internalDispatch", TRUE)
             /\ Returns(funName)
             /\ IF funName \in m_functions
                THEN UNCHANGED <<m_functions, m_code>>
                ELSE /\ m_functions' = m_functions \cup {funName}
                     /\ m_code' = MapPut(m_code, funName,
                                         DispatchTemplate(funName, a, Cases(order)))
             /\ UNCHANGED <<m_functionGenerationQueue, dispatchVars, registryVars, address>>

(***************************************************************************)
(* Local variables, immutables, state variables, yul variable names        *)
(***************************************************************************)
\* IRVariable{_varDecl}: the variable is known by its declaration.
IRVariable(v) == [declaration |-> v]

\* m_localVariables[&_varDecl] = IRVariable{_varDecl}, without the solAssert
addLocalVariableAgain(v) ==
    /\ last' = Call("addLocalVariable", TRUE)
    /\ m_localVariables' = MapPut(m_localVariables, v, IRVariable(v))
    /\ Returns(IRVariable(v))
    /\ UNCHANGED <<queueVars, dispatchVars, m_immutableVariables, m_reservedMemory,
                   m_stateVariables, m_varCounter, address>>

addLocalVariable(v) ==
    IF v \in DOMAIN m_localVariables
    THEN /\ last' = Call("addLocalVariable", FALSE)
         /\ Returns(Void)
         /\ UNCHANGED <<queueVars, dispatchVars, registryVars, address>>
    ELSE /\ last' = Call("addLocalVariable", TRUE)
         /\ m_localVariables' = MapPut(m_localVariables, v, IRVariable(v))
         /\ Returns(IRVariable(v))
         /\ UNCHANGED <<queueVars, dispatchVars, m_immutableVariables, m_reservedMemory,
                        m_stateVariables, m_varCounter, address>>

localVariable(v) ==
    /\ IF v \notin DOMAIN m_localVariables
       THEN last' = Call("localVariable", FALSE) /\ Returns(Void)
       ELSE last' = Call("localVariable", TRUE) /\ Returns(m_localVariables[v])
    /\ UNCHANGED <<queueVars, dispatchVars, registryVars, address>>

\* The same call without line 92: the reserved size is not advanced.
registerImmutableVariableNoAdvance(v) ==
    IF ~immutable(v) \/ ~isValueType(v) \/ m_reservedMemory = Nullopt
    THEN /\ last' = Call("registerImmutableVariable", FALSE)
         /\ Returns(Void)
         /\ UNCHANGED <<queueVars, dispatchVars, registryVars, address>>
    ELSE /\ m_immutableVariables' =
                MapPut(m_immutableVariables, v,
                       generalPurposeMemoryStart + Value(m_reservedMemory))
         /\ last' = Call("registerImmutableVariable", TRUE)
         /\ Returns(Void)
         /\ UNCHANGED <<queueVars, dispatchVars, m_localVariables, m_reservedMemory,
                        m_stateVariables, m_varCounter, address>>

registerImmutableVariable(v) ==
    IF ~immutable(v) \/ ~isValueType(v) \/ m_reservedMemory = Nullopt
    THEN /\ last' = Call("registerImmutableVariable", FALSE)
         /\ Returns(Void)
         /\ UNCHANGED <<queueVars, dispatchVars, registryVars, address>>
    ELSE /\ m_immutableVariables' =
                MapPut(m_immutableVariables, v,
                       generalPurposeMemoryStart + Value(m_reservedMemory))
         /\ IF memoryHeadSize(v) # 32
            THEN /\ last' = Call("registerImmutableVariable", FALSE)
                 /\ UNCHANGED m_reservedMemory
            ELSE /\ last' = Call("registerImmutableVariable", TRUE)
                 /\ m_reservedMemory' =
                        Optional(Value(m_reservedMemory) + memoryHeadSize(v))
         /\ Returns(Void)
         /\ UNCHANGED <<queueVars, dispatchVars, m_localVariables, m_stateVariables,
                        m_varCounter, address>>

immutableMemoryOffset(v) ==
    /\ IF v \notin DOMAIN m_immutableVariables
       THEN last' = Call("immutableMemoryOffset", FALSE) /\ Returns(Void)
       ELSE last' = Call("immutableMemoryOffset", TRUE) /\ Returns(m_immutableVariables[v])
    /\ UNCHANGED <<queueVars, dispatchVars, registryVars, address>>

reservedMemory ==
    IF m_reservedMemory = Nullopt
    THEN /\ last' = Call("reservedMemory", FALSE)
         /\ Returns(Void)
         /\ UNCHANGED <<queueVars, dispatchVars, registryVars, address>>
    ELSE /\ last' = Call("reservedMemory", TRUE)
         /\ Returns(Value(m_reservedMemory))
         /\ m_reservedMemory' = Nullopt
         /\ UNCHANGED <<queueVars, dispatchVars, m_localVariables, m_immutableVariables,
                        m_stateVariables, m_varCounter, address>>

addStateVariable(v, storageOffset, byteOffset) ==
    /\ last' = Call("addStateVariable", TRUE)
    /\ m_stateVariables' = MapPut(m_stateVariables, v, <<storageOffset, byteOffset>>)
    /\ Returns(Void)
    /\ UNCHANGED <<queueVars, dispatchVars, m_localVariables, m_immutableVariables,
                   m_reservedMemory, m_varCounter, address>>

newYulVariable ==
    /\ last' = Call("newYulVariable", TRUE)
    /\ m_varCounter' = m_varCounter + 1
    /\ Returns("_" \o to_string(m_varCounter + 1))
    /\ UNCHANGED <<queueVars, dispatchVars, m_localVariables, m_immutableVariables,
                   m_reservedMemory, m_stateVariables, address>>

(***************************************************************************)
(* The calls a user of the context makes, in any order.                    *)
(***************************************************************************)
Enqueue(f) == enqueueFunctionForCodeGeneration(f) /\ UNCHANGED <<driverVars, restVars>>
Dequeue == dequeueFunctionForCodeGeneration /\ UNCHANGED <<driverVars, restVars>>
CreateFunction(f) == createFunction(f) /\ UNCHANGED <<driverVars, restVars>>
SetCandidates(m) == setInternalDispatchCandidates(m) /\ UNCHANGED <<driverVars, restVars>>
Collect(e, f) == collectDispatchableReference(e, f) /\ UNCHANGED <<driverVars, restVars>>
Forget(e) == forgetDispatchableReference(e) /\ UNCHANGED <<driverVars, restVars>>
Register(a) == registerInternalDispatch(a) /\ UNCHANGED <<driverVars, restVars>>
Promote == moveCollectedReferencesToDispatch /\ UNCHANGED <<driverVars, restVars>>
Consume == consumeInternalDispatchMap /\ UNCHANGED <<driverVars, restVars>>
AddLocal(v) == addLocalVariable(v) /\ UNCHANGED <<driverVars, restVars>>
Local(v) == localVariable(v) /\ UNCHANGED <<driverVars, restVars>>
RegisterImmutable(v) ==
    /\ m_reservedMemory # Nullopt => Value(m_reservedMemory) < MaxImmutables * 32
    /\ registerImmutableVariable(v)
    /\ UNCHANGED <<driverVars, restVars>>
ImmutableOffset(v) == immutableMemoryOffset(v) /\ UNCHANGED <<driverVars, restVars>>
ReservedMemory == reservedMemory /\ UNCHANGED <<driverVars, restVars>>
AddStateVariable(v, s, b) == addStateVariable(v, s, b) /\ UNCHANGED <<driverVars, restVars>>
NewYulVariable == m_varCounter < MaxVarCounter /\ newYulVariable /\ UNCHANGED <<driverVars, restVars>>

\* The functions whose code the caller requests from the function collector.
Requested == FunctionDefinitions \cap {1, 2}

Next ==
    \/ \E f \in FunctionDefinitions : Enqueue(f)
    \/ Dequeue
    \/ \E f \in Requested : CreateFunction(f)
    \/ \E m \in CandidateMaps : SetCandidates(m)
    \/ \E e \in Expressions, f \in FunctionDefinitions : Collect(e, f)
    \/ \E e \in Expressions : Forget(e)
    \/ \E a \in Arities : Register(a)
    \/ Promote
    \/ Consume

Spec == Init /\ [][Next]_vars

\* The queue alone, for every order the objects may have in memory.
InitQueue ==
    /\ InitContext
    /\ address \in AddressOrders
    /\ NoDriver
    /\ NoRest

NextQueue ==
    \/ \E f \in FunctionDefinitions : Enqueue(f)
    \/ Dequeue
    \/ \E f \in FunctionDefinitions : CreateFunction(f)

SpecQueue == InitQueue /\ [][NextQueue]_vars

\* One code object with a single function, expression and function type, next
\* to the variables of the contract: every part of the context is in use.
NextContext ==
    \/ Enqueue(1)
    \/ CreateFunction(1)
    \/ Collect(1, 1)
    \/ Register(functionArity(1))
    \/ Promote
    \/ Consume
    \/ \E v \in VariableDeclarations : AddLocal(v)
    \/ \E v \in VariableDeclarations : Local(v)
    \/ \E v \in VariableDeclarations : RegisterImmutable(v)
    \/ \E v \in VariableDeclarations : ImmutableOffset(v)
    \/ ReservedMemory
    \/ \E v \in VariableDeclarations, s \in StorageOffsets, b \in ByteOffsets :
          AddStateVariable(v, s, b)
    \/ NewYulVariable

SpecContext == Init /\ [][NextContext]_vars

(***************************************************************************)
(* The generator that drives the context for one code object: it lowers    *)
(* the entry code, then generates the queued functions and calls           *)
(* moveCollectedReferencesToDispatch in turn until the queue stays empty,  *)
(* and then calls consumeInternalDispatchMap.                              *)
(*   pc = "body":     lowering the entry code (current = 0) or the body of *)
(*                    the function `current`; opsLeft statements remain    *)
(*   pc = "drain":    about to test the queue                              *)
(*   pc = "generate": a function was dequeued, its code is requested       *)
(*   pc = "promote":  the queue is empty                                   *)
(*   pc = "consume":  the queue was found empty after the promotion        *)
(*   pc = "done", "failed"                                                 *)
(***************************************************************************)
InitDriver ==
    /\ InitContext
    /\ address \in AddressOrders
    /\ pc = "body"
    /\ current = 0
    /\ opsLeft = MaxBodyOps
    /\ dequeued = [f \in FunctionDefinitions |-> 0]
    /\ NoRest

\* One statement of the code being lowered.
Lowers == pc = "body" /\ opsLeft > 0 /\ opsLeft' = opsLeft - 1 /\ UNCHANGED <<pc, current, dequeued, restVars>>

\* a direct call of f
LowerCall(f) == Lowers /\ enqueueFunctionForCodeGeneration(f)

\* the expression e names the function f
LowerReference(e, f) ==
    /\ Lowers
    /\ e \notin DOMAIN m_dispatchableInternalFunctionReferences
    /\ collectDispatchableReference(e, f)

\* the expression e turns out to be the callee of a direct call
LowerDirectCallee(e) ==
    /\ Lowers
    /\ e \in DOMAIN m_dispatchableInternalFunctionReferences
    /\ forgetDispatchableReference(e)

\* a call through a pointer of function type a
LowerPointerCall(a) == Lowers /\ registerInternalDispatch(a)

\* the code being lowered has no further statement
LowerEnd ==
    /\ pc = "body"
    /\ pc' = "drain"
    /\ UNCHANGED <<queueVars, dispatchVars, registryVars, address, last, returned,
                   current, opsLeft, dequeued, restVars>>

\* while (!functionGenerationQueueEmpty()) dequeueFunctionForCodeGeneration()
DriverDequeue ==
    /\ pc = "drain"
    /\ IF m_functionGenerationQueue = {}
       THEN /\ pc' = "promote"
            /\ UNCHANGED <<queueVars, dispatchVars, registryVars, address, last, returned,
                           current, opsLeft, dequeued, restVars>>
       ELSE /\ dequeueFunctionForCodeGeneration
            /\ pc' = "generate"
            /\ current' = ret'
            /\ dequeued' = [dequeued EXCEPT ![ret'] = IF @ < 2 THEN @ + 1 ELSE @]
            /\ UNCHANGED <<opsLeft, restVars>>

\* functionCollector().createFunction(functionName(current), <lower the body>):
\* the body is lowered unless the name is recorded already.
DriverGenerate ==
    /\ pc = "generate"
    /\ IF functionName(current) \in m_functions
       THEN /\ pc' = "drain"
            /\ UNCHANGED <<queueVars, dispatchVars, registryVars, address, last, returned,
                           current, opsLeft, dequeued, restVars>>
       ELSE /\ createFunction(current)
            /\ pc' = "body"
            /\ opsLeft' = MaxBodyOps
            /\ UNCHANGED <<current, dequeued, restVars>>

DriverPromote ==
    /\ pc = "promote"
    /\ moveCollectedReferencesToDispatch
    /\ pc' = IF ~last'.ok THEN "failed"
             ELSE IF m_functionGenerationQueue' = {} THEN "consume" ELSE "drain"
    /\ UNCHANGED <<current, opsLeft, dequeued, restVars>>

DriverConsume ==
    /\ pc = "consume"
    /\ consumeInternalDispatchMap
    /\ pc' = IF last'.ok THEN "done" ELSE "failed"
    /\ UNCHANGED <<current, opsLeft, dequeued, restVars>>

NextDriver ==
    \/ \E f \in FunctionDefinitions : LowerCall(f)
    \/ \E e \in Expressions, f \in FunctionDefinitions : LowerReference(e, f)
    \/ \E e \in Expressions : LowerDirectCallee(e)
    \/ \E a \in Arities : LowerPointerCall(a)
    \/ LowerEnd
    \/ DriverDequeue
    \/ DriverGenerate
    \/ DriverPromote
    \/ DriverConsume

SpecDriver == InitDriver /\ [][NextDriver]_vars

\* The generator is a sequential program: at each position it takes its step.
\* (Code being lowered ends after finitely many statements; the last conjunct
\* is WF_vars(DriverPromote) with ENABLED <<DriverPromote>>_vars written as
\* the guard of the step, pc = "promote".)
DriverFairness ==
    /\ WF_vars(LowerEnd)
    /\ WF_vars(DriverDequeue)
    /\ WF_vars(DriverGenerate)
    /\ WF_vars(DriverConsume)
    /\ ([]<>(pc # "promote") \/ []<><<DriverPromote>>_vars)

SpecDriverFair == SpecDriver /\ DriverFairness

(***************************************************************************)
(* Several code objects generated one after the other with one context:    *)
(* the caller keeps the candidates consumeInternalDispatchMap returned and *)
(* hands them to setInternalDispatchCandidates for the next object.        *)
(*   pc = "fresh":     no candidates were installed since the last consume *)
(*   pc = "installed": the candidates in `leftover` were installed         *)
(***************************************************************************)
InitObjects ==
    /\ InitContext
    /\ address = ReverseLayout
    /\ pc = "fresh"
    /\ current = 0
    /\ opsLeft = 0
    /\ dequeued = [f \in FunctionDefinitions |-> 0]
    /\ NoRest

\* the expression e of the current object names the function f
ObjectCollect(e, f) ==
    /\ collectDispatchableReference(e, f)
    /\ collected' = IF last'.ok THEN collected \cup {f} ELSE collected
    /\ UNCHANGED <<driverVars, m_code, leftover, registrations, simplifierVars>>

\* auto [dispatch, candidates] = consumeInternalDispatchMap(): the object is done
ObjectConsume ==
    /\ consumeInternalDispatchMap
    /\ IF last'.ok
       THEN pc' = "fresh" /\ leftover' = ret'[2] /\ collected' = {}
       ELSE UNCHANGED <<pc, leftover, collected>>
    /\ UNCHANGED <<current, opsLeft, dequeued, m_code, registrations, simplifierVars>>

\* setInternalDispatchCandidates(move(candidates))
ObjectInstall ==
    /\ setInternalDispatchCandidates(leftover)
    /\ pc' = IF last'.ok THEN "installed" ELSE pc
    /\ UNCHANGED <<current, opsLeft, dequeued, restVars>>

\* Each object has one expression that names a function; the code of
\* function 1 may have been requested from the collector.
NextObjects ==
    \/ Dequeue
    \/ CreateFunction(1)
    \/ \E f \in FunctionDefinitions : ObjectCollect(1, f)
    \/ \E a \in Arities : Register(a)
    \/ Promote
    \/ ObjectConsume
    \/ ObjectInstall

SpecObjects == InitObjects /\ [][NextObjects]_vars

\* moveCollectedReferencesToDispatch(): the references that are pending now
\* were not forgotten, they are references by name outside a direct call.
OrderPromote ==
    /\ moveCollectedReferencesToDispatch
    /\ collected' =
          IF last'.ok
          THEN collected \cup {m_dispatchableInternalFunctionReferences[e] :
                                  e \in DOMAIN m_dispatchableInternalFunctionReferences}
          ELSE collected
    /\ UNCHANGED <<driverVars, m_code, leftover, registrations, simplifierVars>>

\* The calls a code object makes on the context, in any order: its
\* expressions name functions, some of them turn out to be callees of direct
\* calls, pointers of any function type are called, and the references are
\* promoted at any time. Here `collected` holds the functions whose
\* reference was pending at a promotion of the current object.
NextOrder ==
    \/ \E e \in Expressions, f \in FunctionDefinitions : Collect(e, f)
    \/ \E e \in Expressions : Forget(e)
    \/ \E a \in Arities : Register(a)
    \/ OrderPromote
    \/ ObjectConsume
    \/ ObjectInstall

SpecOrder == InitObjects /\ [][NextOrder]_vars

\* The dispatch functions of the unit are requested, for any set of functions
\* and every order of the function objects in memory.
InternalDispatch(a, functions) ==
    /\ internalDispatch(a, functions)
    /\ UNCHANGED <<driverVars, leftover, registrations, collected, simplifierVars>>

\* The sets of functions internalDispatch is handed.
FunctionSets == {F \in SUBSET FunctionObjects : Cardinality(F) <= MaxDispatched}

NextDispatch ==
    \/ \E a \in Arities, functions \in FunctionSets : InternalDispatch(a, functions)
    \/ CreateFunction(1)

SpecDispatch == InitQueue /\ [][NextDispatch]_vars

\* The variables of one contract: its immutables are registered and the
\* reserved memory is read, its local variables are added and looked up.
CountedRegisterImmutable(v) ==
    /\ m_reservedMemory # Nullopt => Value(m_reservedMemory) < MaxImmutables * 32
    /\ registerImmutableVariable(v)
    /\ registrations' = IF last'.ok THEN registrations + 1 ELSE registrations
    /\ UNCHANGED <<driverVars, m_code, leftover, collected, simplifierVars>>

NextRegistry ==
    \/ \E v \in ContractVariables : CountedRegisterImmutable(v)
    \/ \E v \in ContractVariables : ImmutableOffset(v)
    \/ ReservedMemory
    \/ \E v \in ContractVariables : AddLocal(v)
    \/ \E v \in ContractVariables : Local(v)

SpecRegistry == Init /\ [][NextRegistry]_vars

(***************************************************************************)
(* ReasoningBasedSimplifier.                                               *)
(* An expression, of Yul or of the solver, is the sequence of its tokens   *)
(* in prefix form: lt(add(x, 1), 2) is <<"lt", "add", "x", "1", "2">>.      *)
(***************************************************************************)
\* SSAValueTracker::ssaVariables(_ast): x is assigned once, y more than once.
m_ssaVariables == {"x"}
Identifiers == {"x", "y"}
\* builtins of the EVM dialect that have an instruction; f is a user function
Builtins == {"lt", "gt", "add", "mul"}
UserFunctions == {"f"}

\* The conditions of the if statements of the block: comparisons of a
\* variable, a call, a sum, a product or a comparison with a literal or x.
Conditions ==
    {<<"lt", "x", "2">>, <<"gt", "x", "2">>, <<"lt", "y", "2">>, <<"lt", "f", "2">>,
     <<"gt", "add", "x", "1", "1">>, <<"gt", "add", "x", "1", "x">>,
     <<"lt", "mul", "x", "1", "2">>,
     <<"lt", "lt", "f", "1", "2">>}

\* The initializers of `let x`: none, a literal, a sum, a call.
Values == {<< >>, <<"1">>, <<"add", "1", "1">>, <<"f">>}

\* valueOfLiteral(_literal) of a decimal number literal
valueOfLiteral(t) == CHOOSE n \in 0 .. 9 : Digit(n) = t

\* Number of arguments of the call or solver operator t; 0 for every other token.
Arguments(t) ==
    CASE t \in {"lt", "gt", "add", "mul", "<", ">", "+", "=", "!="} -> 2
      [] t = "ite" -> 3
      [] OTHER -> 0

\* Length of the expression that starts at e[i].
RECURSIVE ExprLen(_, _)
ExprLen(e, i) ==
    CASE Arguments(e[i]) = 0 -> 1
      [] Arguments(e[i]) = 2 ->
            LET l1 == ExprLen(e, i + 1)
            IN  1 + l1 + ExprLen(e, i + 1 + l1)
      [] Arguments(e[i]) = 3 ->
            LET l1 == ExprLen(e, i + 1)
                l2 == ExprLen(e, i + 1 + l1)
            IN  1 + l1 + l2 + ExprLen(e, i + 1 + l1 + l2)

\* _functionCall.arguments.at(k - 1), k = 1, 2, 3
RECURSIVE ArgStart(_, _)
ArgStart(e, k) ==
    IF k = 1 THEN 2 ELSE ArgStart(e, k - 1) + ExprLen(e, ArgStart(e, k - 1))

Arg(e, k) == SubSeq(e, ArgStart(e, k), ArgStart(e, k) + ExprLen(e, ArgStart(e, k)) - 1)

\* newVariable(): m_solver->newVariable("expr_" + to_string(m_varCounter++), intSort).
\* The encoders return the solver expression and the counter they leave.
newVariable(counter) ==
    [smt |-> <<"expr_" \o to_string(counter)>>, counter |-> counter + 1]

RECURSIVE encodeExpression(_, _, _)
RECURSIVE encodeBuiltin(_, _, _, _)

encodeBuiltinWithoutAdd(instruction, e, variables, counter) ==
    LET a0 == encodeExpression(Arg(e, 1), variables, counter)
        a1 == encodeExpression(Arg(e, 2), variables, a0.counter)
    IN  CASE instruction = "lt" ->
               [smt |-> <<"ite", "<">> \o a0.smt \o a1.smt \o <<"1", "0">>,
                counter |-> a1.counter]
          [] instruction = "gt" ->
               [smt |-> <<"ite", ">">> \o a0.smt \o a1.smt \o <<"1", "0">>,
                counter |-> a1.counter]
          [] OTHER -> newVariable(a1.counter)

\* encodeBuiltin(_instruction, _arguments): the arguments are encoded in
\* order, whatever the instruction is.
encodeBuiltin(instruction, e, variables, counter) ==
    LET a0 == encodeExpression(Arg(e, 1), variables, counter)
        a1 == encodeExpression(Arg(e, 2), variables, a0.counter)
    IN  CASE instruction = "lt" ->
               [smt |-> <<"ite", "<">> \o a0.smt \o a1.smt \o <<"1", "0">>,
                counter |-> a1.counter]
          [] instruction = "gt" ->
               [smt |-> <<"ite", ">">> \o a0.smt \o a1.smt \o <<"1", "0">>,
                counter |-> a1.counter]
          [] instruction = "add" ->
               [smt |-> <<"+">> \o a0.smt \o a1.smt, counter |-> a1.counter]
          [] OTHER -> newVariable(a1.counter)

encodeExpression(e, variables, counter) ==
    IF e[1] \in Builtins THEN encodeBuiltin(e[1], e, variables, counter)
    ELSE IF e[1] \in UserFunctions THEN newVariable(counter)
    ELSE IF e[1] \in Identifiers
    THEN IF e[1] \in m_ssaVariables /\ e[1] \in DOMAIN variables
         THEN [smt |-> <<variables[e[1]]>>, counter |-> counter]
         ELSE newVariable(counter)
    ELSE [smt |-> <<to_string(valueOfLiteral(e[1]))>>, counter |-> counter]

\* SolverInterface: push, pop, addAssertion on the stack of assertion scopes
Push(solver) == Append(solver, {})
PopNothing(solver) == solver
Pop(solver) == SubSeq(solver, 1, Len(solver) - 1)
AddAssertion(solver, assertion) ==
    [solver EXCEPT ![Len(solver)] = @ \cup {assertion}]

\* The assertions in force.
Assertions(solver) == UNION {solver[i] : i \in DOMAIN solver}

\* CheckResult values a check can return (the simplifier tells UNSATISFIABLE
\* from all the others).
CheckResults == {"SATISFIABLE", "UNSATISFIABLE", "UNKNOWN"}

\* The integers a model of the assertions is looked for in: the sums and
\* literals of the expressions above are compared within this range.
SolverInts == -3 .. 4

SolverVariables(e) ==
    {e[i] : i \in DOMAIN e} \ ({"ite", "<", ">", "+", "=", "!="} \cup {Digit(n) : n \in 0 .. 9})

\* The values of the expressions that start at or behind e[i], the leftmost
\* first, in a model; a formula has the value 1 or 0.
RECURSIVE SmtValues(_, _, _)
SmtValues(e, i, model) ==
    IF i > Len(e) THEN << >>
    ELSE LET v == SmtValues(e, i + 1, model)
             Rest(n) == SubSeq(v, n + 1, Len(v))
         IN  CASE e[i] = "ite" -> <<IF v[1] = 1 THEN v[2] ELSE v[3]>> \o Rest(3)
               [] e[i] = "<" -> <<IF v[1] < v[2] THEN 1 ELSE 0>> \o Rest(2)
               [] e[i] = ">" -> <<IF v[1] > v[2] THEN 1 ELSE 0>> \o Rest(2)
               [] e[i] = "=" -> <<IF v[1] = v[2] THEN 1 ELSE 0>> \o Rest(2)
               [] e[i] = "!=" -> <<IF v[1] # v[2] THEN 1 ELSE 0>> \o Rest(2)
               [] e[i] = "+" -> <<v[1] + v[2]>> \o Rest(2)
               [] e[i] \in DOMAIN model -> <<model[e[i]]>> \o v
               [] OTHER -> <<valueOfLiteral(e[i])>> \o v

SmtValue(e, model) == SmtValues(e, 1, model)[1]

\* Some model satisfies every assertion. A variable that occurs in one
\* assertion only is given its value for that assertion alone.
Satisfiable(assertions) ==
    LET shared == {x \in UNION {SolverVariables(a) : a \in assertions} :
                      \E a, b \in assertions :
                          a # b /\ x \in SolverVariables(a) /\ x \in SolverVariables(b)}
    IN  \E model \in [shared -> SolverInts] :
          \A a \in assertions :
            \E own \in [SolverVariables(a) \ shared -> SolverInts] :
                SmtValue(a, [x \in SolverVariables(a) |->
                                IF x \in shared THEN model[x] ELSE own[x]]) = 1

\* m_solver->check({}).first of a solver that decides every query
Decided(solver) ==
    IF Satisfiable(Assertions(solver)) THEN "SATISFIABLE" ELSE "UNSATISFIABLE"

\* The simplifier after its constructor, at the head of the block.
InitSimplifier ==
    /\ InitContext
    /\ address = ReverseLayout
    /\ NoDriver
    /\ m_code = EmptyMap
    /\ leftover = EmptyMap
    /\ registrations = 0
    /\ collected = {}
    /\ m_solver = << {} >>
    /\ m_variables = EmptyMap
    /\ m_exprCounter = 0
    /\ visiting = << >>
    /\ ast = [at |-> "block", left |-> MaxStatements, declaredAt |-> -1, value |-> << >>]

contextVars == <<queueVars, dispatchVars, registryVars, address, last, returned, driverVars,
                 m_code, leftover, registrations, collected>>

VisitVariableDeclarationOutermost(varName, value) ==
    /\ ast.at = "block"
    /\ ast.left > 0
    /\ ast.declaredAt = -1
    /\ ast' = [ast EXCEPT !.left = @ - 1, !.declaredAt = Len(visiting), !.value = value]
    /\ IF value = << >> \/ varName \notin m_ssaVariables
       THEN UNCHANGED <<m_solver, m_variables, m_exprCounter>>
       ELSE LET variables == IF varName \in DOMAIN m_variables
                             THEN m_variables
                             ELSE MapPut(m_variables, varName, "yul_" \o varName)
                enc == encodeExpression(value, variables, m_exprCounter)
            IN  /\ m_variables' = variables
                /\ m_exprCounter' = enc.counter
                /\ m_solver' = [m_solver EXCEPT ![1] =
                                    @ \cup {<<"=", variables[varName]>> \o enc.smt}]
    /\ UNCHANGED <<visiting, contextVars>>

\* operator()(VariableDeclaration&) for `let x` or `let x := value`. In ast,
\* declaredAt is the nesting depth of the declaration (-1 before it, -2 once
\* its block has ended) and value is its initializer.
VisitVariableDeclaration(varName, value) ==
    /\ ast.at = "block"
    /\ ast.left > 0
    /\ ast.declaredAt = -1
    /\ ast' = [ast EXCEPT !.left = @ - 1, !.declaredAt = Len(visiting), !.value = value]
    /\ IF value = << >> \/ varName \notin m_ssaVariables
       THEN UNCHANGED <<m_solver, m_variables, m_exprCounter>>
       ELSE LET variables == IF varName \in DOMAIN m_variables
                             THEN m_variables
                             ELSE MapPut(m_variables, varName, "yul_" \o varName)
                enc == encodeExpression(value, variables, m_exprCounter)
            IN  /\ m_variables' = variables
                /\ m_exprCounter' = enc.counter
                /\ m_solver' = AddAssertion(m_solver, <<"=", variables[varName]>> \o enc.smt)
    /\ UNCHANGED <<visiting, contextVars>>

\* operator()(If&), lines 61-63: the condition is encoded, the first scope
\* is opened. A condition may name x only where x is in scope.
VisitIf(condition) ==
    /\ ast.at = "block"
    /\ ast.left > 0
    /\ Len(visiting) < MaxNesting
    /\ (\E i \in DOMAIN condition : condition[i] = "x") => ast.declaredAt >= 0
    /\ LET enc == encodeExpression(condition, m_variables, m_exprCounter)
       IN  /\ m_exprCounter' = enc.counter
           /\ m_solver' = AddAssertion(Push(m_solver), <<"=">> \o enc.smt \o <<"0">>)
           /\ visiting' = Append(visiting,
                  [original |-> condition, condition |-> condition, encoded |-> enc.smt,
                   entered |-> m_solver, variables |-> m_variables,
                   counter |-> m_exprCounter, pushes |-> 1, pops |-> 0,
                   result |-> "none", result2 |-> "none"])
    /\ ast' = [ast EXCEPT !.at = "query1", !.left = @ - 1]
    /\ UNCHANGED <<m_variables, contextVars>>

\* lines 64-70: the first check has returned `result`
Query1(result) ==
    /\ ast.at = "query1"
    /\ LET top == visiting[Len(visiting)]
       IN  /\ m_solver' = AddAssertion(Push(Pop(m_solver)), <<"!=">> \o top.encoded \o <<"0">>)
           /\ visiting' = [visiting EXCEPT ![Len(visiting)] =
                  [@ EXCEPT !.result = result,
                            !.condition = IF result = "UNSATISFIABLE" THEN <<"1">> ELSE @,
                            !.pushes = 2, !.pops = 1]]
    /\ ast' = [ast EXCEPT !.at = "query2"]
    /\ UNCHANGED <<m_variables, m_exprCounter, contextVars>>

Query2RewritesUndisproven(result2) ==
    /\ ast.at = "query2"
    /\ LET top == visiting[Len(visiting)]
       IN  /\ m_solver' = AddAssertion(Push(Pop(m_solver)), <<"!=">> \o top.encoded \o <<"0">>)
           /\ visiting' = [visiting EXCEPT ![Len(visiting)] =
                  [@ EXCEPT !.result2 = result2,
                            !.condition = IF result2 # "SATISFIABLE" THEN <<"0">> ELSE @,
                            !.pushes = 3, !.pops = 2]]
    /\ ast' = [ast EXCEPT !.at = "block"]
    /\ UNCHANGED <<m_variables, m_exprCounter, contextVars>>

Query2WithoutAssumption(result2) ==
    /\ ast.at = "query2"
    /\ LET top == visiting[Len(visiting)]
       IN  /\ m_solver' = Push(Pop(m_solver))
           /\ visiting' = [visiting EXCEPT ![Len(visiting)] =
                  [@ EXCEPT !.result2 = result2,
                            !.condition = IF result2 = "UNSATISFIABLE" THEN <<"0">> ELSE @,
                            !.pushes = 3, !.pops = 2]]
    /\ ast' = [ast EXCEPT !.at = "block"]
    /\ UNCHANGED <<m_variables, m_exprCounter, contextVars>>

\* lines 71-80: the second check has returned `result2`; the body is entered
Query2(result2) ==
    /\ ast.at = "query2"
    /\ LET top == visiting[Len(visiting)]
       IN  /\ m_solver' = AddAssertion(Push(Pop(m_solver)), <<"!=">> \o top.encoded \o <<"0">>)
           /\ visiting' = [visiting EXCEPT ![Len(visiting)] =
                  [@ EXCEPT !.result2 = result2,
                            !.condition = IF result2 = "UNSATISFIABLE" THEN <<"0">> ELSE @,
                            !.pushes = 3, !.pops = 2]]
    /\ ast' = [ast EXCEPT !.at = "block"]
    /\ UNCHANGED <<m_variables, m_exprCounter, contextVars>>

EndBodyKeepsScope ==
    /\ ast.at = "block"
    /\ visiting # << >>
    /\ m_solver' = m_solver
    /\ visiting' = SubSeq(visiting, 1, Len(visiting) - 1)
    /\ ast' = [ast EXCEPT !.declaredAt = IF @ = Len(visiting) THEN -2 ELSE @]
    /\ UNCHANGED <<m_variables, m_exprCounter, contextVars>>

\* line 82: the body has no further statement
EndBody ==
    /\ ast.at = "block"
    /\ visiting # << >>
    /\ m_solver' = Pop(m_solver)
    /\ visiting' = SubSeq(visiting, 1, Len(visiting) - 1)
    /\ ast' = [ast EXCEPT !.declaredAt = IF @ = Len(visiting) THEN -2 ELSE @]
    /\ UNCHANGED <<m_variables, m_exprCounter, contextVars>>

\* the block has no further statement: run() returns
EndRun ==
    /\ ast.at = "block"
    /\ visiting = << >>
    /\ ast' = [ast EXCEPT !.at = "done"]
    /\ UNCHANGED <<m_solver, m_variables, m_exprCounter, visiting, contextVars>>

\* A run over any block whose conditions are lt(a, 2) for a variable or a
\* call a, whatever the solver answers.
NextSimplifier ==
    \/ \E value \in Values : VisitVariableDeclaration("x", value)
    \/ \E condition \in {c \in Conditions : Len(c) = 3 /\ c[1] = "lt"} : VisitIf(condition)
    \/ \E result \in CheckResults : Query1(result)
    \/ \E result2 \in CheckResults : Query2(result2)
    \/ EndBody
    \/ EndRun

SpecSimplifier == InitSimplifier /\ [][NextSimplifier]_vars

\* A run over any block with a solver that decides every query.
NextDeciding ==
    \/ \E value \in Values : VisitVariableDeclaration("x", value)
    \/ \E condition \in Conditions : VisitIf(condition)
    \/ Query1(Decided(m_solver))
    \/ Query2(Decided(m_solver))
    \/ EndBody
    \/ EndRun

SpecDeciding == InitSimplifier /\ [][NextDeciding]_vars

(***************************************************************************)
(* Properties                                                              *)
(***************************************************************************)
\* The arities that are keys of both maps.
Both == (DOMAIN m_internalDispatch) \cap (DOMAIN m_internalDispatchCandidates)

\* The last call was a moveCollectedReferencesToDispatch that returned.
Promoted == last = Call("moveCollectedReferencesToDispatch", TRUE)

\* C1: after every completed moveCollectedReferencesToDispatch, whatever calls
\* came before it, the table of collected references is empty and no arity
\* is a key of both the dispatch map and the candidates map.
C1_PromotionPartitions ==
    Promoted => /\ m_dispatchableInternalFunctionReferences = EmptyMap
                /\ Both = {}

\* A promotion has run that left functions in the dispatch map and others as
\* candidates.
C1_Witness ==
    /\ Promoted
    /\ \E a \in DOMAIN m_internalDispatch : m_internalDispatch[a] # {}
    /\ \E a \in DOMAIN m_internalDispatchCandidates : m_internalDispatchCandidates[a] # {}

\* C2, as stated: in every reachable state no arity is a key of both maps.
C2_NeverInBothMaps == Both = {}

\* C2, amended: an arity becomes a key of both maps only by a
\* registerInternalDispatch call for it, its set in the dispatch map is empty
\* as long as it is a key of both, and no arity is a key of both once a
\* promotion has completed.
C2_InBothOnlyUntilPromotion ==
    [][ /\ \A a \in Both' : m_internalDispatch'[a] = {}
        /\ \A a \in Both' \ Both :
              /\ last' = Call("registerInternalDispatch", TRUE)
              /\ ret' = internalDispatchFunctionName(a)
        /\ Promoted' => Both' = {} ]_vars

\* registerInternalDispatch was just called for an arity that has candidates.
C2_Witness ==
    /\ last = Call("registerInternalDispatch", TRUE)
    /\ \E a \in Both : ret = internalDispatchFunctionName(a)

\* The functions the collected references of arity a point to.
RefFunctions(references, a) ==
    {references[e] : e \in {x \in DOMAIN references : functionArity(references[x]) = a}}

RefArities(references) == {functionArity(references[e]) : e \in DOMAIN references}

CandidatesOf(candidates, a) == IF a \in DOMAIN candidates THEN candidates[a] ELSE {}

\* What a promotion must leave in the dispatch map, the candidates map, the queue.
PromotedDispatch(dispatch, candidates, references) ==
    [a \in DOMAIN dispatch |->
        dispatch[a] \cup CandidatesOf(candidates, a) \cup RefFunctions(references, a)]

PromotedCandidates(dispatch, candidates, references) ==
    [a \in ((DOMAIN candidates) \cup RefArities(references)) \ DOMAIN dispatch |->
        CandidatesOf(candidates, a) \cup RefFunctions(references, a)]

PromotedQueue(queue, functions, dispatch, candidates, references) ==
    queue \cup
    {f \in FunctionDefinitions :
        /\ functionName(f) \notin functions
        /\ \E a \in DOMAIN dispatch :
              f \in CandidatesOf(candidates, a) \cup RefFunctions(references, a)}

ExpectedFunctionName(f) ==
    CASE f = 1 -> "fun_f_1" [] f = 2 -> "fun_g_2" [] f = 3 -> "fun_f_3" [] f = 4 -> "fun_g_4"

\* C4: enqueueFunctionForCodeGeneration(f) returns fun_<name>_<id>, on every
\* call; two functions never get the same name; the call inserts f in the
\* queue unless f is queued already or its name is recorded in the function
\* collector, and it inserts nothing else.
C4_EnqueueNamesAndQueuesOnce ==
    [][ last'.op = "enqueueFunctionForCodeGeneration" =>
        \A f \in FunctionDefinitions :
          enqueueFunctionForCodeGeneration(f) =>
            /\ ret' = ExpectedFunctionName(f)
            /\ \A g \in FunctionDefinitions \ {f} : functionName(g) # ret'
            /\ m_functionGenerationQueue' =
                  IF f \in m_functionGenerationQueue \/ ExpectedFunctionName(f) \in m_functions
                  THEN m_functionGenerationQueue
                  ELSE m_functionGenerationQueue \cup {f}
            /\ UNCHANGED m_functions ]_vars

\* enqueue was called for function 1 after its name was recorded: it returned
\* the name and did not queue the function.
C4_Witness ==
    /\ last = Call("enqueueFunctionForCodeGeneration", TRUE)
    /\ ret = "fun_f_1"
    /\ "fun_f_1" \in m_functions
    /\ 1 \notin m_functionGenerationQueue
    /\ m_functionGenerationQueue # {}

\* What dequeueFunctionForCodeGeneration does apart from the choice of the element.
DequeueRemovesOne ==
    IF m_functionGenerationQueue = {}
    THEN /\ last' = Call("dequeueFunctionForCodeGeneration", FALSE)
         /\ UNCHANGED <<queueVars, dispatchVars, registryVars>>
    ELSE /\ last' = Call("dequeueFunctionForCodeGeneration", TRUE)
         /\ ret' \in m_functionGenerationQueue
         /\ m_functionGenerationQueue' = m_functionGenerationQueue \ {ret'}
         /\ UNCHANGED <<m_functions, dispatchVars, registryVars>>

\* C7: dequeue fails on an empty queue and changes nothing; otherwise
\* it removes and returns the queued function with the lowest identity.
C7_DequeuesLowestIdentity ==
    [][ dequeueFunctionForCodeGeneration =>
          /\ DequeueRemovesOne
          /\ m_functionGenerationQueue # {} =>
                \A g \in m_functionGenerationQueue : id(ret') <= id(g) ]_vars

\* The names the naming contract dispatch_internal_in_<in>_out_<out> gives.
ExpectedDispatchName(a) ==
    CASE a = Arity(1, 1) -> "dispatch_internal_in_1_out_1"
      [] a = Arity(2, 0) -> "dispatch_internal_in_2_out_0"

\* C8: registerInternalDispatch(A) leaves A a key of the dispatch map, mapped
\* to the empty set if it was no key and to its former set if it was one (so
\* a second call changes nothing), returns the dispatcher name of A and
\* leaves the rest of the dispatch map, the queue, the recorded names, the
\* candidates and the collected references alone. An entry with an empty set
\* that has no candidates and no collected reference keeps its empty set
\* through a promotion, and consumeInternalDispatchMap returns the dispatch
\* map as it is, empty sets included.
C8_RegisterIsIdempotent ==
    [][ /\ last'.op = "registerInternalDispatch" =>
            \A a \in Arities :
              registerInternalDispatch(a) =>
                /\ m_internalDispatch' =
                      IF a \in DOMAIN m_internalDispatch
                      THEN m_internalDispatch
                      ELSE MapPut(m_internalDispatch, a, {})
                /\ ret' = ExpectedDispatchName(a)
                /\ UNCHANGED <<queueVars, m_internalDispatchCandidates,
                               m_dispatchableInternalFunctionReferences>>
        /\ Promoted' =>
              \A a \in DOMAIN m_internalDispatch :
                  (/\ m_internalDispatch[a] = {}
                   /\ a \notin DOMAIN m_internalDispatchCandidates
                   /\ RefFunctions(m_dispatchableInternalFunctionReferences, a) = {})
                  => (a \in DOMAIN m_internalDispatch' /\ m_internalDispatch'[a] = {})
        /\ last' = Call("consumeInternalDispatchMap", TRUE) => ret'[1] = m_internalDispatch
      ]_vars

\* registerInternalDispatch was called again for an arity whose entry holds a
\* function, next to an arity registered without any function.
C8_Witness ==
    /\ last = Call("registerInternalDispatch", TRUE)
    /\ \E a \in DOMAIN m_internalDispatch :
          m_internalDispatch[a] # {} /\ ret = ExpectedDispatchName(a)
    /\ \E a \in DOMAIN m_internalDispatch : m_internalDispatch[a] = {}

\* C10: collectDispatchableReference(e, f) fails if e has an entry in the
\* reference table and otherwise adds the entry e -> f;
\* forgetDispatchableReference(e) fails if e has no entry and otherwise removes
\* that entry and no other; a failing call changes neither the table nor the
\* maps nor the queue.
C10_CollectAndForget ==
    [][ /\ last'.op = "collectDispatchableReference" =>
            \A e \in Expressions, f \in FunctionDefinitions :
              collectDispatchableReference(e, f) =>
                IF e \in DOMAIN m_dispatchableInternalFunctionReferences
                THEN ~last'.ok /\ UNCHANGED <<queueVars, dispatchVars>>
                ELSE /\ last'.ok
                     /\ m_dispatchableInternalFunctionReferences' =
                           [x \in (DOMAIN m_dispatchableInternalFunctionReferences) \cup {e} |->
                               IF x = e THEN f ELSE m_dispatchableInternalFunctionReferences[x]]
                     /\ UNCHANGED <<queueVars, m_internalDispatch, m_internalDispatchCandidates>>
        /\ last'.op = "forgetDispatchableReference" =>
            \A e \in Expressions :
              forgetDispatchableReference(e) =>
                IF e \notin DOMAIN m_dispatchableInternalFunctionReferences
                THEN ~last'.ok /\ UNCHANGED <<queueVars, dispatchVars>>
                ELSE /\ last'.ok
                     /\ m_dispatchableInternalFunctionReferences' =
                           [x \in (DOMAIN m_dispatchableInternalFunctionReferences) \ {e} |->
                               m_dispatchableInternalFunctionReferences[x]]
                     /\ UNCHANGED <<queueVars, m_internalDispatch, m_internalDispatchCandidates>>
      ]_vars

\* forgetDispatchableReference has removed one entry and left another.
C10_Witness ==
    /\ last = Call("forgetDispatchableReference", TRUE)
    /\ m_dispatchableInternalFunctionReferences # EmptyMap
    /\ m_internalDispatch # EmptyMap

\* C9: consumeInternalDispatchMap fails and changes nothing while a collected
\* reference is pending; otherwise it returns the dispatch map and the
\* candidates map as they were, empties both, and leaves the queue, the
\* recorded names, the local variables, the immutables, the reserved memory,
\* the state variables and the counter of yul variables as they were.
C9_ConsumeDrainsOnlyTheMaps ==
    [][ last'.op = "consumeInternalDispatchMap" =>
          IF m_dispatchableInternalFunctionReferences # EmptyMap
          THEN /\ ~last'.ok
               /\ UNCHANGED <<queueVars, dispatchVars, registryVars>>
          ELSE /\ last'.ok
               /\ ret' = <<m_internalDispatch, m_internalDispatchCandidates>>
               /\ m_internalDispatch' = EmptyMap
               /\ m_internalDispatchCandidates' = EmptyMap
               /\ m_dispatchableInternalFunctionReferences' = EmptyMap
               /\ UNCHANGED <<queueVars, registryVars>> ]_vars

\* consume has returned a dispatch map that holds a function, in a context
\* that has a recorded name, a local variable, an immutable, a state variable
\* and a yul variable.
C9_Witness ==
    /\ last = Call("consumeInternalDispatchMap", TRUE)
    /\ \E a \in DOMAIN ret[1] : ret[1][a] # {}
    /\ m_internalDispatch = EmptyMap
    /\ m_functions # {}
    /\ m_localVariables # EmptyMap
    /\ m_immutableVariables # EmptyMap
    /\ m_stateVariables # EmptyMap
    /\ m_varCounter > 0

\* C5: in a run of the generator no function is dequeued more than once,
\* whatever the functions call and reference.
C5_DequeuedAtMostOnce == \A f \in FunctionDefinitions : dequeued[f] <= 1

\* The generator is about to consume: function 1 and another function were
\* generated once each, and function 1 is in the dispatch map.
C5_Witness ==
    /\ pc = "consume"
    /\ dequeued[1] = 1
    /\ \E a \in DOMAIN m_internalDispatch : 1 \in m_internalDispatch[a]
    /\ \E f \in FunctionDefinitions \ {1} : dequeued[f] = 1

\* A further moveCollectedReferencesToDispatch would change nothing.
PromotionFixedPoint ==
    LET r == MovedToDispatch(m_internalDispatch, m_internalDispatchCandidates,
                             m_functionGenerationQueue, m_functions,
                             m_dispatchableInternalFunctionReferences)
    IN  /\ r.ok
        /\ r.dispatch = m_internalDispatch
        /\ r.candidates = m_internalDispatchCandidates
        /\ r.queue = m_functionGenerationQueue

\* C6: every run of the generator comes to the point where the queue is
\* empty, no collected reference is pending and a further promotion changes
\* nothing, which is where it calls consumeInternalDispatchMap.
C6_ReachesFixedPoint ==
    <>( /\ pc = "consume"
        /\ m_functionGenerationQueue = {}
        /\ m_dispatchableInternalFunctionReferences = EmptyMap
        /\ PromotionFixedPoint )

\* The run is over: every function was generated once and the dispatch map
\* that consumeInternalDispatchMap returned holds one of them.
C6_Witness ==
    /\ pc = "done"
    /\ \E a \in DOMAIN ret[1] : \E f \in ret[1][a] : dequeued[f] = 1
    /\ \A f \in FunctionDefinitions : dequeued[f] = 1
\* The functions of dispatch[a], none if a is no key.
DispatchOf(dispatch, a) == IF a \in DOMAIN dispatch THEN dispatch[a] ELSE {}

\* C11: setInternalDispatchCandidates fails unless the dispatch map, the
\* candidates map and the reference table are all empty, and otherwise
\* installs the map it is handed. Once the candidates a consume returned are
\* installed, each of them stays a candidate or a member of the dispatch map
\* until the next consume; and a promotion that runs while their arity A is
\* registered leaves every one of them in dispatch[A] and passes those it
\* moves to enqueue (in the queue unless the collector has their name),
\* whether or not a reference to them was collected in this object.
C11_LeftoverCandidatesPromoted ==
    [][ /\ last'.op = "setInternalDispatchCandidates" =>
            /\ last'.ok <=> internalDispatchClean
            /\ last'.ok => /\ m_internalDispatchCandidates' = leftover
                           /\ pc' = "installed"
            /\ UNCHANGED <<queueVars, m_internalDispatch,
                           m_dispatchableInternalFunctionReferences>>
        /\ pc' = "installed" =>
            \A a \in DOMAIN leftover : \A f \in leftover[a] :
                /\ functionArity(f) = a
                /\ f \in CandidatesOf(m_internalDispatchCandidates', a)
                          \cup DispatchOf(m_internalDispatch', a)
        /\ (pc = "installed" /\ Promoted') =>
            \A a \in (DOMAIN leftover) \cap (DOMAIN m_internalDispatch) :
              \A f \in leftover[a] :
                /\ f \in m_internalDispatch'[a]
                /\ f \notin m_internalDispatch[a] =>
                      \/ f \in m_functionGenerationQueue'
                      \/ functionName(f) \in m_functions ]_vars

\* In a later object a promotion has just moved a leftover candidate into the
\* dispatch map and queued it; the object collected no reference to it.
C11_Witness ==
    /\ pc = "installed"
    /\ Promoted
    /\ \E a \in DOMAIN leftover : \E f \in leftover[a] :
          /\ f \in DispatchOf(m_internalDispatch, a)
          /\ f \in m_functionGenerationQueue
          /\ f \notin collected
\* The value of a decimal number literal of the dispatch function.
LiteralValue(str) == CHOOSE n \in 0 .. 9 : Digit(n) = str

\* What the switch of a dispatch function does for the selector fun: the
\* function it forwards to, or "invalid()".
Selected(code, fun) ==
    IF \E i \in DOMAIN code.cases : LiteralValue(code.cases[i].funID) = fun
    THEN code.cases[CHOOSE i \in DOMAIN code.cases :
                        LiteralValue(code.cases[i].funID) = fun].name
    ELSE code.default

\* C12: internalDispatch(A, F) fails, and creates nothing, if a function of F
\* has another arity than A, is a constructor or has the id 0. Otherwise the
\* dispatch function it creates has the dispatcher name of A and one case
\* for each function of F and no other, the case of f being selected by the
\* id of f and forwarding to fun_<name>_<id>; its default is invalid(), so a
\* selector that is the id of no function of F, 0 included, fails; for an
\* empty F it has no case.
C12_DispatchCases ==
    [][ last'.op = "internalDispatch" =>
        \A a \in Arities, F \in FunctionSets :
          internalDispatch(a, F) =>
            /\ last'.ok <=>
                  \A f \in F : functionArity(f) = a /\ f # NumFunctions + 2 /\ f # 0
            /\ ~last'.ok => UNCHANGED <<m_functions, m_code>>
            /\ (last'.ok /\ ExpectedDispatchName(a) \notin m_functions) =>
                 LET code == m_code'[ExpectedDispatchName(a)]
                 IN  /\ ret' = ExpectedDispatchName(a)
                     /\ code.functionName = ExpectedDispatchName(a)
                     /\ Len(code.cases) = Cardinality(F)
                     /\ \A f \in F : \E i \in DOMAIN code.cases :
                           /\ LiteralValue(code.cases[i].funID) = f
                           /\ code.cases[i].name = ExpectedFunctionName(f)
                     /\ code.default = "invalid()"
                     /\ \A fun \in 0 .. NumFunctions + 3 :
                           Selected(code, fun) =
                              IF fun \in F THEN ExpectedFunctionName(fun) ELSE "invalid()"
                     /\ F = {} => code.cases = << >> ]_vars

\* A dispatch function with two cases was created, the function with the
\* higher id first.
C12_Witness ==
    /\ last = Call("internalDispatch", TRUE)
    /\ ret \in DOMAIN m_code
    /\ Len(m_code[ret].cases) = 2
    /\ LiteralValue(m_code[ret].cases[1].funID) > LiteralValue(m_code[ret].cases[2].funID)
\* C13: the k-th registerImmutableVariable call that returns (k = 0, 1, ...)
\* gives its variable the offset generalPurposeMemoryStart + 32 * k and
\* leaves the offsets of the other variables alone; reservedMemory then
\* returns 32 times the number of these calls and leaves no value behind;
\* from then on reservedMemory and registerImmutableVariable fail.
C13_ImmutablesBumpAllocated ==
    [][ /\ last'.op = "registerImmutableVariable" =>
            \A v \in ContractVariables :
              CountedRegisterImmutable(v) =>
                /\ m_reservedMemory = Nullopt => ~last'.ok
                /\ ~last'.ok => UNCHANGED <<m_immutableVariables, m_reservedMemory>>
                /\ last'.ok =>
                      /\ m_immutableVariables'[v] = 128 + 32 * registrations
                      /\ \A w \in DOMAIN m_immutableVariables' \ {v} :
                            /\ w \in DOMAIN m_immutableVariables
                            /\ m_immutableVariables'[w] = m_immutableVariables[w]
                      /\ m_reservedMemory' # Nullopt
        /\ last'.op = "reservedMemory" =>
              IF m_reservedMemory = Nullopt
              THEN ~last'.ok /\ UNCHANGED <<m_immutableVariables, m_reservedMemory>>
              ELSE /\ last'.ok
                   /\ ret' = 32 * registrations
                   /\ m_reservedMemory' = Nullopt
        /\ m_reservedMemory = Nullopt => m_reservedMemory' = Nullopt ]_vars

\* Two immutables were registered, the first at 128 and the second at 160,
\* and reservedMemory has returned 64.
C13_Witness ==
    /\ last = Call("reservedMemory", TRUE)
    /\ ret = 64
    /\ m_reservedMemory = Nullopt
    /\ registrations = 2
    /\ m_immutableVariables = [v \in {1, 3} |-> IF v = 1 THEN 128 ELSE 160]

\* C14: addLocalVariable(d) fails when d has a binding, which it then leaves
\* as it is, and otherwise stores a binding for d and returns it;
\* localVariable(d) fails when d has no binding and otherwise returns the
\* binding addLocalVariable(d) stored; no call removes or changes a binding,
\* so localVariable(d) succeeds ever after.
C14_LocalsBoundOnce ==
    [][ /\ last'.op = "addLocalVariable" =>
            \A d \in ContractVariables :
              addLocalVariable(d) =>
                IF d \in DOMAIN m_localVariables
                THEN ~last'.ok /\ m_localVariables' = m_localVariables
                ELSE /\ last'.ok
                     /\ DOMAIN m_localVariables' = (DOMAIN m_localVariables) \cup {d}
                     /\ m_localVariables'[d] = [declaration |-> d]
                     /\ ret' = [declaration |-> d]
        /\ last'.op = "localVariable" =>
            \A d \in ContractVariables :
              localVariable(d) =>
                IF d \in DOMAIN m_localVariables
                THEN last'.ok /\ ret' = [declaration |-> d]
                ELSE ~last'.ok
        /\ \A d \in DOMAIN m_localVariables :
              /\ d \in DOMAIN m_localVariables'
              /\ m_localVariables'[d] = m_localVariables[d] ]_vars

\* addLocalVariable has just failed for a declaration that is bound, next to
\* a declaration that is not bound; the binding is as it was stored.
C14_Witness ==
    /\ last = Call("addLocalVariable", FALSE)
    /\ DOMAIN m_localVariables = {1, 2}
    /\ m_localVariables[2] = [declaration |-> 2]

\* Number of assumption scopes a solver has open.
Depth(solver) == Len(solver) - 1

\* C15: every push of the simplifier is matched by one pop. Entering a
\* conditional opens one scope; both satisfiability queries run exactly one
\* scope above the depth the conditional was entered at; when the visit of
\* the conditional returns, after three pushes and the third pop, the depth
\* is the depth before the visit, whatever the solver answered and whatever
\* was nested in the body; when the run ends the depth is 0.
C15_PushPopPaired ==
    [][/\ (Len(visiting') > Len(visiting) => Depth(m_solver') = Depth(m_solver) + 1)
       /\ (ast'.at \in {"query1", "query2"} =>
               Depth(m_solver') = Depth(visiting'[Len(visiting')].entered) + 1)
       /\ (Len(visiting') < Len(visiting) =>
               /\ visiting[Len(visiting)].pushes = 3
               /\ visiting[Len(visiting)].pops = 2
               /\ Depth(m_solver') = Depth(visiting[Len(visiting)].entered))
       /\ Depth(m_solver') = Len(visiting')
       /\ (ast'.at = "done" => Depth(m_solver') = 0)]_vars

\* A run has ended after MaxStatements conditionals, each with a condition
\* that took a fresh solver variable.
C15_Witness ==
    /\ ast.at = "done"
    /\ ast.left = 0
    /\ ast.declaredAt = -1
    /\ m_exprCounter = MaxStatements
    /\ Depth(m_solver) = 0

\* C16: a condition is rewritten only on an UNSATISFIABLE answer. It is the
\* literal 1 only if the check of `condition = 0` returned UNSATISFIABLE, the
\* literal 0 only if the check of `condition != 0` returned UNSATISFIABLE,
\* and it is the condition it was when neither check returned UNSATISFIABLE.
C16_RewrittenOnlyOnUnsat ==
    \A i \in DOMAIN visiting :
        LET v == visiting[i]
        IN  /\ (v.condition = <<"1">> => v.result = "UNSATISFIABLE")
            /\ (v.condition = <<"0">> => v.result2 = "UNSATISFIABLE")
            /\ (v.result # "UNSATISFIABLE" /\ v.result2 # "UNSATISFIABLE" =>
                    v.condition = v.original)

\* Inside two nested bodies: the outer condition was kept on the answers
\* UNKNOWN and SATISFIABLE, the inner one became 0 on UNKNOWN and
\* UNSATISFIABLE.
C16_Witness ==
    /\ ast.at = "block"
    /\ Len(visiting) = 2
    /\ visiting[1].result = "UNKNOWN"
    /\ visiting[1].result2 = "SATISFIABLE"
    /\ visiting[1].condition = visiting[1].original
    /\ visiting[2].result = "UNKNOWN"
    /\ visiting[2].result2 = "UNSATISFIABLE"
    /\ visiting[2].condition = <<"0">>

\* The answers a complete solver gives to the two checks of a conditional
\* with the condition c that is visited next.
Decision(solver, variables, counter, c) ==
    LET enc == encodeExpression(c, variables, counter).smt
    IN  <<Decided(AddAssertion(Push(solver), <<"=">> \o enc \o <<"0">>)),
          Decided(AddAssertion(Push(solver), <<"!=">> \o enc \o <<"0">>))>>

\* C18: assumptions do not leak out of a conditional. When the visit of a
\* conditional returns, the solver holds the scopes and assertions it held
\* before the visit (neither check's assertion, nor the taken-branch
\* assumption, nor a definition asserted in the body remains), and a
\* comparison of x, where x is in scope, would be decided as it would have
\* been decided in place of the conditional.
C18_NoLeak ==
    [][Len(visiting') < Len(visiting) =>
          LET top == visiting[Len(visiting)]
          IN  /\ m_solver' = top.entered
              /\ Assertions(m_solver') = Assertions(top.entered)
              /\ \A c \in {d \in Conditions : d[2] = "x"} :
                    ast'.declaredAt >= 0 =>
                        Decision(m_solver', m_variables', m_exprCounter', c)
                            = Decision(top.entered, top.variables, top.counter, c)]_vars

\* The outermost conditional has returned; x was declared and defined in
\* its body, and no assertion is left.
C18_Witness ==
    /\ ast.at = "block"
    /\ ast.left > 0
    /\ visiting = << >>
    /\ ast.declaredAt = -2
    /\ ast.value # << >>
    /\ "x" \in DOMAIN m_variables
    /\ Assertions(m_solver) = {}

\* The values of the Yul expressions that start at or behind e[i], the
\* leftmost first, over the unbounded integers, where x has the value x.
RECURSIVE YulValues(_, _, _)
YulValues(e, i, x) ==
    IF i > Len(e) THEN << >>
    ELSE LET v == YulValues(e, i + 1, x)
             Rest == SubSeq(v, 3, Len(v))
         IN  CASE e[i] = "lt" -> <<IF v[1] < v[2] THEN 1 ELSE 0>> \o Rest
               [] e[i] = "gt" -> <<IF v[1] > v[2] THEN 1 ELSE 0>> \o Rest
               [] e[i] = "add" -> <<v[1] + v[2]>> \o Rest
               [] e[i] = "x" -> <<x>> \o v
               [] OTHER -> <<valueOfLiteral(e[i])>> \o v

IntegerValue(e, x) == YulValues(e, 1, x)[1]

\* e is built from numeric literals, x, lt, gt and add only.
Arithmetic(e) ==
    \A i \in DOMAIN e : e[i] \in {"lt", "gt", "add", "x"} \cup {Digit(n) : n \in 0 .. 9}

Mentions(e, identifier) == \E i \in DOMAIN e : e[i] = identifier

\* The conditional of the frame v has been decided, and its condition is
\* built from literals, lt, gt, add and x, where x was tracked when the
\* conditional was entered and is defined by such an expression.
Determined(v) ==
    /\ v.result2 # "none"
    /\ Arithmetic(v.original)
    /\ Mentions(v.original, "x") =>
           /\ "x" \in DOMAIN v.variables
           /\ ast.value # << >>
           /\ Arithmetic(ast.value)

\* The literal that stands for the integer value of the condition of v.
LiteralOfValue(v) ==
    LET x == IF ast.value # << >> /\ Arithmetic(ast.value)
             THEN IntegerValue(ast.value, 0) ELSE 0
    IN  IF IntegerValue(v.original, x) # 0 THEN <<"1">> ELSE <<"0">>

\* C17 as stated: with a complete solver, a condition built from literals,
\* tracked variables, lt, gt and add becomes the literal 1 when its integer
\* value is nonzero and the literal 0 when it is zero, and a comparison of
\* the untracked variable y is left as it was.
C17_Original ==
    \A i \in DOMAIN visiting :
        LET v == visiting[i]
        IN  /\ (Determined(v) => v.condition = LiteralOfValue(v))
            /\ (v.result2 # "none" /\ Mentions(v.original, "y") =>
                    v.condition = v.original)

\* C17, amended: the statement holds for a conditional that is entered
\* with satisfiable assertions. In the body of a conditional whose condition
\* is always zero the assertions are contradictory, both checks return
\* UNSATISFIABLE, and every condition ends as the literal 0.
C17_DecidedWhereReachable ==
    \A i \in DOMAIN visiting :
        LET v == visiting[i]
        IN  IF Satisfiable(Assertions(v.entered))
            THEN /\ (Determined(v) => v.condition = LiteralOfValue(v))
                 /\ (v.result2 # "none" /\ Mentions(v.original, "y") =>
                         v.condition = v.original)
            ELSE v.result2 # "none" => v.condition = <<"0">>

\* With x := add(1, 1), the condition gt(add(x, 1), 1) became 1, and in the
\* body the condition lt(x, 2) became 0.
C17_Witness ==
    /\ ast.value = <<"add", "1", "1">>
    /\ Len(visiting) = 2
    /\ visiting[1].original = <<"gt", "add", "x", "1", "1">>
    /\ visiting[1].condition = <<"1">>
    /\ visiting[2].original = <<"lt", "x", "2">>
    /\ visiting[2].condition = <<"0">>
    /\ Satisfiable(Assertions(visiting[2].entered))

\* The values of the Yul expressions that start at or behind e[i], the
\* leftmost first, where x has the value x and the one call of e to a user
\* function or to a builtin other than lt, gt and add returns u.
RECURSIVE CallValues(_, _, _, _)
CallValues(e, i, x, u) ==
    IF i > Len(e) THEN << >>
    ELSE LET v == CallValues(e, i + 1, x, u)
             Rest == SubSeq(v, 3, Len(v))
         IN  CASE e[i] = "lt" -> <<IF v[1] < v[2] THEN 1 ELSE 0>> \o Rest
               [] e[i] = "gt" -> <<IF v[1] > v[2] THEN 1 ELSE 0>> \o Rest
               [] e[i] = "add" -> <<v[1] + v[2]>> \o Rest
               [] e[i] = "mul" -> <<u>> \o Rest
               [] e[i] = "f" -> <<u>> \o v
               [] e[i] = "x" -> <<x>> \o v
               [] OTHER -> <<valueOfLiteral(e[i])>> \o v

\* The values the condition of v can have, over the results of its call
\* and, unless x is defined by literals, lt, gt and add, the values of x.
PossibleValues(v) ==
    LET xs == IF ast.value # << >> /\ Arithmetic(ast.value)
                 /\ "x" \in DOMAIN v.variables
              THEN {IntegerValue(ast.value, 0)} ELSE SolverInts
    IN  {CallValues(v.original, 1, x, u)[1] : x \in xs, u \in SolverInts}

\* The condition of v calls a user function or a builtin other than lt, gt, add.
CallsUnrecognized(v) == Mentions(v.original, "f") \/ Mentions(v.original, "mul")

\* C19 as stated: a conditional whose condition contains a call to an
\* unrecognized operation, at any depth, is left unmodified.
C19_Original ==
    \A i \in DOMAIN visiting :
        LET v == visiting[i]
        IN  v.result2 # "none" /\ CallsUnrecognized(v) => v.condition = v.original

\* C19, what holds instead: such a conditional is left unmodified when its
\* condition is zero for some result of the call and nonzero for another.
\* Its condition becomes 1 (0), and the call is dropped, when the condition
\* is nonzero (zero) for every result of the call, and it becomes 0 where
\* the assertions the conditional is entered with are contradictory.
C19_UnmodifiedWhereUndetermined ==
    \A i \in DOMAIN visiting :
        LET v == visiting[i]
        IN  v.result2 # "none" /\ CallsUnrecognized(v) =>
                v.condition =
                    IF ~Satisfiable(Assertions(v.entered)) THEN <<"0">>
                    ELSE IF 0 \notin PossibleValues(v) THEN <<"1">>
                    ELSE IF PossibleValues(v) = {0} THEN <<"0">>
                    ELSE v.original

\* The values of a machine word.
Words == 0 .. 2^WordBits - 1

\* The values of the Yul expressions that start at or behind e[i], the
\* leftmost first, on the machine: add wraps modulo 2^WordBits, lt and gt
\* compare unsigned words.
RECURSIVE WordValues(_, _, _)
WordValues(e, i, x) ==
    IF i > Len(e) THEN << >>
    ELSE LET v == WordValues(e, i + 1, x)
             Rest == SubSeq(v, 3, Len(v))
         IN  CASE e[i] = "lt" -> <<IF v[1] < v[2] THEN 1 ELSE 0>> \o Rest
               [] e[i] = "gt" -> <<IF v[1] > v[2] THEN 1 ELSE 0>> \o Rest
               [] e[i] = "add" -> <<(v[1] + v[2]) % 2^WordBits>> \o Rest
               [] e[i] = "x" -> <<x>> \o v
               [] OTHER -> <<valueOfLiteral(e[i]) % 2^WordBits>> \o v

\* The values the condition of v can have on the machine: x has the value
\* of its initializer when that is built from literals, lt, gt and add, and
\* any word otherwise.
MachineValues(v) ==
    LET xs == IF ast.value # << >> /\ Arithmetic(ast.value)
              THEN {WordValues(ast.value, 1, 0)[1]} ELSE Words
    IN  {WordValues(v.original, 1, x)[1] : x \in xs}

\* C20: the simplifier is correct for the machine's fixed-width arithmetic.
\* Whenever a condition built from literals, x, lt, gt and add, of a
\* conditional entered with satisfiable assertions, is rewritten to 1 (to 0),
\* the condition is nonzero (zero) for every word x can hold, with add
\* wrapping modulo 2^WordBits.
C20_SoundForWords ==
    \A i \in DOMAIN visiting :
        LET v == visiting[i]
        IN  /\ v.result2 # "none"
            /\ Arithmetic(v.original)
            /\ v.condition # v.original
            /\ Satisfiable(Assertions(v.entered))
            => /\ (v.condition = <<"1">> => 0 \notin MachineValues(v))
               /\ (v.condition = <<"0">> => MachineValues(v) = {0})

\* The reference table without the entry of the expression e.
Without(references, e) == [x \in (DOMAIN references) \ {e} |-> references[x]]

\* The function f is stored under the arity a in the map.
StoredUnder(map, a, f) == a \in DOMAIN map /\ f \in map[a]

\* C21: a reference that is collected and forgotten before the next
\* promotion leaves no trace. Forgetting e right after it was collected
\* gives the reference table back as it was; after e is forgotten the table
\* is the table without e, and a promotion from there yields the dispatch
\* map, the candidates map and the queue that the former maps and queue
\* yield with the references other than e. A reference that is pending when
\* a promotion runs is stored by it under its arity in exactly one of the
\* two maps.
C21_ForgottenReferenceLeavesNoTrace ==
    [][ /\ last' = Call("collectDispatchableReference", TRUE) =>
              \A e \in (DOMAIN m_dispatchableInternalFunctionReferences')
                        \ DOMAIN m_dispatchableInternalFunctionReferences :
                  Erased(m_dispatchableInternalFunctionReferences', e)
                      = m_dispatchableInternalFunctionReferences
        /\ last' = Call("forgetDispatchableReference", TRUE) =>
              \A e \in (DOMAIN m_dispatchableInternalFunctionReferences)
                        \ DOMAIN m_dispatchableInternalFunctionReferences' :
                  LET kept == Without(m_dispatchableInternalFunctionReferences, e)
                      r == MovedToDispatch(m_internalDispatch', m_internalDispatchCandidates',
                                           m_functionGenerationQueue', m_functions',
                                           m_dispatchableInternalFunctionReferences')
                  IN  /\ m_dispatchableInternalFunctionReferences' = kept
                      /\ r.ok
                      /\ r.dispatch = PromotedDispatch(m_internalDispatch,
                                           m_internalDispatchCandidates, kept)
                      /\ r.candidates = PromotedCandidates(m_internalDispatch,
                                           m_internalDispatchCandidates, kept)
                      /\ r.queue = PromotedQueue(m_functionGenerationQueue, m_functions,
                                           m_internalDispatch, m_internalDispatchCandidates, kept)
        /\ Promoted' =>
              \A e \in DOMAIN m_dispatchableInternalFunctionReferences :
                  LET f == m_dispatchableInternalFunctionReferences[e]
                  IN  /\ StoredUnder(m_internalDispatch', functionArity(f), f)
                            # StoredUnder(m_internalDispatchCandidates', functionArity(f), f)
                      /\ \A a \in Arities \ {functionArity(f)} :
                            /\ ~StoredUnder(m_internalDispatch', a, f)
                            /\ ~StoredUnder(m_internalDispatchCandidates', a, f) ]_vars

\* A reference was forgotten while another one is pending, a function is
\* queued and both maps hold functions.
C21_Witness ==
    /\ last = Call("forgetDispatchableReference", TRUE)
    /\ m_dispatchableInternalFunctionReferences # EmptyMap
    /\ m_functionGenerationQueue # {}
    /\ \E a \in DOMAIN m_internalDispatch : m_internalDispatch[a] # {}
    /\ m_internalDispatchCandidates # EmptyMap

\* The taken-branch assumption of the frame v: the condition as it was when
\* the conditional was entered, encoded with the variables and the counter
\* of that moment, is not 0.
Assumption(v) ==
    <<"!=">> \o encodeExpression(v.original, v.variables, v.counter).smt \o <<"0">>

\* Over the integers the solver looks at, the condition c is nonzero
\* wherever the condition o is.
Implied(o, c) ==
    \A x \in SolverInts : IntegerValue(o, x) # 0 => IntegerValue(c, x) # 0

\* x was tracked when the conditional of v was entered, and is defined by a
\* call, so that nothing is known about its value.
TracksUnknown(v) == "x" \in DOMAIN v.variables /\ ast.value = <<"f">>

\* C22: while the body of a conditional is visited, the scope the visitor
\* opened for it holds the assertion that the condition, encoded when the
\* conditional was entered and before any rewrite, is not 0, also where the
\* condition has been rewritten to 0 or 1. With x tracked and unknown, a
\* conditional in the body whose condition is implied by the outer one has
\* its condition rewritten to 1, while a conditional outside of any body
\* whose condition is zero for some x is not rewritten to 1.
C22_BodyUnderAssumption ==
    \A i \in DOMAIN visiting :
        LET v == visiting[i]
        IN  /\ v.pushes = 3 =>
                  /\ Len(m_solver) > i
                  /\ Assumption(v) \in m_solver[i + 1]
            /\ ( /\ i > 1
                 /\ v.result2 # "none"
                 /\ TracksUnknown(visiting[i - 1])
                 /\ Arithmetic(v.original) /\ Arithmetic(visiting[i - 1].original)
                 /\ Implied(visiting[i - 1].original, v.original)
                 /\ Satisfiable(Assertions(v.entered)) )
                => v.condition = <<"1">>
            /\ ( /\ i = 1
                 /\ v.result2 # "none"
                 /\ TracksUnknown(v)
                 /\ Arithmetic(v.original)
                 /\ \E x \in SolverInts : IntegerValue(v.original, x) = 0 )
                => v.condition # <<"1">>

\* With x := f(), the body of `if gt(x, 2)` is visited with the condition
\* as it was, and in it the body of `if gt(add(x, 1), 1)` is visited with
\* that condition rewritten to 1 and its assumption asserted.
C22_Witness ==
    /\ ast.at = "block"
    /\ ast.value = <<"f">>
    /\ Len(visiting) = 2
    /\ visiting[1].original = <<"gt", "x", "2">>
    /\ visiting[1].condition = <<"gt", "x", "2">>
    /\ "x" \in DOMAIN visiting[1].variables
    /\ visiting[2].original = <<"gt", "add", "x", "1", "1">>
    /\ visiting[2].condition = <<"1">>
    /\ visiting[2].pushes = 3
    /\ Assumption(visiting[2]) \in m_solver[3]

\* The functions of the candidates installed for the current object.
InitialCandidates ==
    IF pc = "installed" THEN UNION {leftover[a] : a \in DOMAIN leftover} ELSE {}

\* The functions of arity a among the initial candidates and the functions
\* collected and not forgotten.
Referenced(a) == {f \in InitialCandidates \cup collected : functionArity(f) = a}

AfterFirstLoop ==
    MoveCandidates([dispatch |-> m_internalDispatch,
                    candidates |-> m_internalDispatchCandidates,
                    queue |-> m_functionGenerationQueue, ok |-> TRUE],
                   m_functions, DOMAIN m_internalDispatch)

\* C24: the assertions of moveCollectedReferencesToDispatch cannot fail.
\* In every state the public operations reach from a fresh context, an
\* arity that is a key of both maps has an empty dispatch set; behind the
\* first loop of a promotion no arity is a key of both maps; and a promotion
\* called in that state would return.
C24_PromotionAssertionsHold ==
    /\ \A a \in Both : m_internalDispatch[a] = {}
    /\ AfterFirstLoop.ok
    /\ (DOMAIN AfterFirstLoop.dispatch) \cap (DOMAIN AfterFirstLoop.candidates) = {}
    /\ MovedToDispatch(m_internalDispatch, m_internalDispatchCandidates,
                       m_functionGenerationQueue, m_functions,
                       m_dispatchableInternalFunctionReferences).ok
    /\ last.op = "moveCollectedReferencesToDispatch" => last.ok

\* After a promotion that filled a dispatch set, an arity that has
\* candidates was registered and a reference to a function of that arity is
\* pending: both assertions of the next promotion meet their case.
C24_Witness ==
    /\ \E a \in DOMAIN m_internalDispatch : m_internalDispatch[a] # {}
    /\ \E a \in Both :
          \E e \in DOMAIN m_dispatchableInternalFunctionReferences :
              functionArity(m_dispatchableInternalFunctionReferences[e]) = a

\* Every function of the map is stored under its own arity.
GroupedByArity(map) ==
    \A a \in DOMAIN map : \A f \in map[a] : functionArity(f) = a

\* C25: where the candidates installed by setInternalDispatchCandidates are
\* grouped by arity, in every reachable state every function of the
\* dispatch map and of the candidates map is stored under its own arity, a
\* function is stored under at most one arity, and in both maps
\* consumeInternalDispatchMap returns every function has the arity of its
\* key, which is what internalDispatch asserts of the functions it is handed.
C25_GroupedByArity ==
    /\ GroupedByArity(m_internalDispatch)
    /\ GroupedByArity(m_internalDispatchCandidates)
    /\ \A f \in FunctionDefinitions :
          Cardinality({a \in Arities : StoredUnder(m_internalDispatch, a, f)
                                        \/ StoredUnder(m_internalDispatchCandidates, a, f)}) <= 1
    /\ last = Call("consumeInternalDispatchMap", TRUE) =>
          /\ GroupedByArity(ret[1])
          /\ GroupedByArity(ret[2])
          /\ \A a \in DOMAIN ret[1] : \A f \in ret[1][a] :
                Dispatchable(a, f) <=> ~isConstructor(f) /\ id(f) # 0

\* consumeInternalDispatchMap has returned a dispatch map with a function
\* and candidates with a function of another arity.
C25_Witness ==
    /\ last = Call("consumeInternalDispatchMap", TRUE)
    /\ \E a \in DOMAIN ret[1], b \in DOMAIN ret[2] :
          a # b /\ ret[1][a] # {} /\ ret[2][b] # {}

\* The functions stored in the map, under whatever arity.
Members(map) == UNION {map[a] : a \in DOMAIN map}

\* C26: every member of the dispatch map has been scheduled. In every state
\* of a run of the generator each function of the dispatch map is in the
\* queue, or was dequeued, or has its name recorded in the collector; a
\* promotion adds to the queue only functions that are dispatch members
\* when it returns, none that is only a candidate; and when
\* consumeInternalDispatchMap returns at the generator's fixed point, the
\* name of every function of the dispatch map it returns is recorded in the
\* collector.
C26_DispatchMembersScheduled ==
    [][ /\ \A f \in Members(m_internalDispatch') :
              \/ f \in m_functionGenerationQueue'
              \/ dequeued'[f] > 0
              \/ functionName(f) \in m_functions'
        /\ (pc = "promote" /\ pc' # "promote") =>
              \A f \in m_functionGenerationQueue' \ m_functionGenerationQueue :
                  /\ f \in Members(m_internalDispatch')
                  /\ f \notin Members(m_internalDispatchCandidates')
        /\ (pc = "consume" /\ pc' = "done") =>
              \A f \in Members(ret'[1]) : functionName(f) \in m_functions' ]_vars

\* The run is over: the dispatch map that was returned holds a function
\* whose code was generated, and the candidates that were returned hold a
\* function that was neither queued nor generated.
C26_Witness ==
    /\ pc = "done"
    /\ \E f \in Members(ret[1]) : dequeued[f] = 1 /\ functionName(f) \in m_functions
    /\ \E g \in Members(ret[2]) :
          /\ dequeued[g] = 0
          /\ functionName(g) \notin m_functions
          /\ g \notin m_functionGenerationQueue

====
